---------------------------- MODULE Spec2Model ----------------------------
(***************************************************************************)
(* Model of the recursive crawler of scraping/webscraper.py (class         *)
(* WebScraper): URL normalisation and filtering, the page fetcher, and the *)
(* breadth-first crawl loop of crawl_site_recursive with its visited set   *)
(* and queue, which are attributes of the WebScraper object.               *)
(*                                                                         *)
(* Strings are sequences of one-character strings, so that urlparse,       *)
(* urlunparse, lower(), startswith() and endswith() are computed and not   *)
(* assumed.                                                                *)
(***************************************************************************)
EXTENDS Integers, Sequences, FiniteSets, TLC

(***************************************************************************)
(* Bounds of the model.                                                    *)
(***************************************************************************)
\* largest max_depth a generated site configuration carries
MaxDepth == 2
\* largest max_pages a generated site configuration carries
MaxPages == 3
\* largest number of rows of the Embedding table
MaxRows == 3
\* largest number of rows of the Embedding table another producer writes to
MaxSharedRows == 4
\* largest number of embeddings the vector store searches
MaxStored == 3

(***************************************************************************)
(* Strings.                                                                *)
(***************************************************************************)
UpperChars == <<"A", "B", "C", "D", "E", "F", "G", "H", "I", "J", "K", "L", "M",
                "N", "O", "P", "Q", "R", "S", "T", "U", "V", "W", "X", "Y", "Z">>
LowerChars == <<"a", "b", "c", "d", "e", "f", "g", "h", "i", "j", "k", "l", "m",
                "n", "o", "p", "q", "r", "s", "t", "u", "v", "w", "x", "y", "z">>
Digits == {"0", "1", "2", "3", "4", "5", "6", "7", "8", "9"}

Range(s) == {s[i] : i \in 1..Len(s)}

\* str.lower() of one character
LowerChar(c) ==
    IF \E i \in 1..Len(UpperChars) : UpperChars[i] = c
    THEN LowerChars[CHOOSE i \in 1..Len(UpperChars) : UpperChars[i] = c]
    ELSE c

\* str.lower()
Lower(s) == [i \in 1..Len(s) |-> LowerChar(s[i])]

\* s[a-1:b] of Python, with 1-based inclusive positions; empty when a > b
Slice(s, a, b) == IF a > b THEN <<>> ELSE SubSeq(s, a, b)

\* str.startswith(p)
StartsWith(s, p) == Len(p) <= Len(s) /\ SubSeq(s, 1, Len(p)) = p

\* str.endswith(p)
EndsWith(s, p) == Len(p) <= Len(s) /\ SubSeq(s, Len(s) - Len(p) + 1, Len(s)) = p

\* the position of the first character of s at or after `from` that is in cs,
\* Len(s) + 1 when there is none (str.find, with "not found" past the end)
Find(s, cs, from) ==
    LET I == {i \in from..Len(s) : s[i] \in cs}
    IN  IF I = {} THEN Len(s) + 1 ELSE CHOOSE i \in I : \A j \in I : i <= j

\* re.search(p, s, re.IGNORECASE) for a pattern p without metacharacters:
\* p occurs in s, letters compared without case
SearchLiteral(p, s) ==
    \E i \in 1..(Len(s) - Len(p) + 1) :
        Lower(SubSeq(s, i, i + Len(p) - 1)) = Lower(p)

(***************************************************************************)
(* urllib.parse, as far as the crawler uses it.  The URLs of the model are *)
(* absolute URLs "scheme://netloc[path][?query][#fragment]" and hrefs that *)
(* are such URLs or paths; none holds ";" (params), "." or ".." segments   *)
(* segments, which urljoin would resolve.                                  *)
(***************************************************************************)
SchemeChars == Range(UpperChars) \cup Range(LowerChars) \cup Digits \cup {"+", "-", "."}
Letters == Range(UpperChars) \cup Range(LowerChars)

\* urlsplit, step 1: the scheme is what precedes the first ":" when that is
\* a letter followed by scheme characters; it is lower-cased
SplitScheme(url) ==
    LET c == Find(url, {":"}, 1)
    IN  IF /\ c <= Len(url)
           /\ c > 1
           /\ url[1] \in Letters
           /\ \A i \in 1..(c - 1) : url[i] \in SchemeChars
        THEN [scheme |-> Lower(Slice(url, 1, c - 1)), rest |-> Slice(url, c + 1, Len(url))]
        ELSE [scheme |-> << >>, rest |-> url]

\* urlsplit, step 2: after "//" the netloc runs to the first "/", "?" or "#"
SplitNetloc(url) ==
    LET e == Find(url, {"/", "?", "#"}, 3)
    IN  IF StartsWith(url, <<"/", "/">>)
        THEN [netloc |-> Slice(url, 3, e - 1), rest |-> Slice(url, e, Len(url))]
        ELSE [netloc |-> << >>, rest |-> url]

\* urlsplit, steps 3 and 4: split at the first occurrence of a separator
SplitAt(url, sep) ==
    LET h == Find(url, {sep}, 1)
    IN  [rest |-> Slice(url, 1, h - 1), tail |-> Slice(url, h + 1, Len(url))]

\* urlparse(url): the six components
urlparse(url) ==
    LET n == SplitNetloc(SplitScheme(url).rest)
        f == SplitAt(n.rest, "#")
        q == SplitAt(f.rest, "?")
    IN  [scheme   |-> SplitScheme(url).scheme,
         netloc   |-> n.netloc,
         path     |-> q.rest,
         params   |-> << >>,
         query    |-> q.tail,
         fragment |-> f.tail]

\* the schemes of the model that urllib lists in uses_netloc and uses_relative
NetlocSchemes == {<<"h", "t", "t", "p">>, <<"h", "t", "t", "p", "s">>}

\* urlunsplit: "//" and the netloc before the path
WithNetloc(p) ==
    IF p.netloc # << >> \/ (p.scheme \in NetlocSchemes /\ ~StartsWith(p.path, <<"/", "/">>))
    THEN <<"/", "/">> \o p.netloc
         \o (IF p.path # << >> /\ p.path[1] # "/" THEN <<"/">> ELSE << >>) \o p.path
    ELSE p.path

\* urlunparse(parts)
urlunparse(p) ==
    (IF p.scheme # << >> THEN p.scheme \o <<":">> ELSE << >>)
    \o WithNetloc(p)
    \o (IF p.query # << >> THEN <<"?">> \o p.query ELSE << >>)
    \o (IF p.fragment # << >> THEN <<"#">> \o p.fragment ELSE << >>)

\* the directory of a path: everything up to its last "/"
DirOf(path) ==
    LET I == {i \in 1..Len(path) : path[i] = "/"}
    IN  IF I = {} THEN <<>> ELSE SubSeq(path, 1, CHOOSE i \in I : \A j \in I : j <= i)

\* urljoin, for a reference u without scheme of its own or with the scheme
\* of the base b, both parsed
JoinParsed(b, u, url) ==
    IF u.scheme # b.scheme \/ u.scheme \notin NetlocSchemes THEN url
    ELSE IF u.netloc # << >> THEN urlunparse(u)
    ELSE IF u.path = << >>
         THEN urlunparse([u EXCEPT !.netloc = b.netloc, !.path = b.path,
                                   !.query = IF u.query = << >> THEN b.query ELSE u.query])
    ELSE IF u.path[1] = "/"
         THEN urlunparse([u EXCEPT !.netloc = b.netloc])
    ELSE urlunparse([u EXCEPT !.netloc = b.netloc,
                              !.path = (IF DirOf(b.path) = << >> THEN <<"/">>
                                        ELSE DirOf(b.path)) \o u.path])

\* urlparse(url, scheme): the scheme given is the default
ParseWithDefault(url, scheme) ==
    IF urlparse(url).scheme = << >> THEN [urlparse(url) EXCEPT !.scheme = scheme]
    ELSE urlparse(url)

\* urljoin(base, url)
urljoin(base, url) ==
    IF base = << >> THEN url
    ELSE IF url = << >> THEN base
    ELSE JoinParsed(urlparse(base), ParseWithDefault(url, urlparse(base).scheme), url)

(***************************************************************************)
(* The URL normaliser and filter of WebScraper.                            *)
(***************************************************************************)
\* the value None of an optional argument
None == <<>>

\* the end of normalize_url without the removal of the trailing slash
StripSlash_never(normalized, path) == normalized


\* the end of normalize_url: a trailing slash is removed unless the path is
\* the root
StripSlash(normalized, path) ==
    IF EndsWith(normalized, <<"/">>) /\ Len(path) > 1
    THEN SubSeq(normalized, 1, Len(normalized) - 1)
    ELSE normalized

\* normalize_url after the join: the fragment is dropped
DropFragment(parsed) == StripSlash(urlunparse([parsed EXCEPT !.fragment = << >>]), parsed.path)

\* WebScraper.normalize_url(url, base_url)
normalize_url(url, base_url) ==
    DropFragment(urlparse(IF base_url # None THEN urljoin(base_url, url) ELSE url))

\* is_same_domain without the comparison of the hosts
is_same_domain_any(url1, url2) == TRUE

\* WebScraper.is_same_domain(url1, url2)
is_same_domain(url1, url2) ==
    Lower(urlparse(url1).netloc) = Lower(urlparse(url2).netloc)

\* exclude_extensions of should_crawl_url: the alternatives of its four patterns
exclude_extensions == <<
    <<<<"p", "d", "f">>, <<"d", "o", "c">>, <<"d", "o", "c", "x">>,
      <<"x", "l", "s">>, <<"x", "l", "s", "x">>, <<"p", "p", "t">>,
      <<"p", "p", "t", "x">>, <<"z", "i", "p">>, <<"r", "a", "r">>,
      <<"t", "a", "r">>, <<"g", "z">>>>,
    <<<<"j", "p", "g">>, <<"j", "p", "e", "g">>, <<"p", "n", "g">>,
      <<"g", "i", "f">>, <<"s", "v", "g">>, <<"i", "c", "o">>,
      <<"w", "e", "b", "p">>, <<"b", "m", "p">>>>,
    <<<<"m", "p", "3">>, <<"m", "p", "4">>, <<"a", "v", "i">>,
      <<"m", "o", "v">>, <<"w", "m", "v">>, <<"f", "l", "v">>,
      <<"w", "e", "b", "m">>>>,
    <<<<"c", "s", "s">>, <<"j", "s">>, <<"j", "s", "o", "n">>,
      <<"x", "m", "l">>, <<"r", "s", "s">>>>>>

\* re.search(r'\.(e1|e2|...)$', url, re.IGNORECASE) for one pattern of
\* exclude_extensions, given as the sequence of its alternatives
SearchExtension(exts, url) ==
    LET lowered == Lower(url)
    IN  \E i \in 1..Len(exts) : EndsWith(lowered, <<".">> \o exts[i])

\* the loop over deny_patterns: some non-empty line matches the URL
DenyMatches(site_config, url) ==
    /\ site_config.deny_patterns # <<>>
    /\ \E i \in 1..Len(site_config.deny_patterns) :
          /\ site_config.deny_patterns[i] # <<>>
          /\ SearchLiteral(site_config.deny_patterns[i], url)

\* the loop over allow_patterns: some non-empty line matches the URL
AllowMatches(site_config, url) ==
    \E i \in 1..Len(site_config.allow_patterns) :
        /\ site_config.allow_patterns[i] # <<>>
        /\ SearchLiteral(site_config.allow_patterns[i], url)

\* should_crawl_url with the allow patterns tested before the deny patterns
should_crawl_url_allow_first(url, site_config, base_url) ==
    IF ~is_same_domain(url, base_url) THEN FALSE
    ELSE IF site_config.allow_patterns # <<>> /\ AllowMatches(site_config, url) THEN TRUE
    ELSE IF DenyMatches(site_config, url) THEN FALSE
    ELSE IF site_config.allow_patterns # <<>> THEN FALSE
    ELSE IF \E k \in 1..Len(exclude_extensions) : SearchExtension(exclude_extensions[k], url)
         THEN FALSE
    ELSE TRUE

\* should_crawl_url with the extension blacklist tested before the allow patterns
should_crawl_url_extension_first(url, site_config, base_url) ==
    IF ~is_same_domain(url, base_url) THEN FALSE
    ELSE IF DenyMatches(site_config, url) THEN FALSE
    ELSE IF \E k \in 1..Len(exclude_extensions) : SearchExtension(exclude_extensions[k], url)
         THEN FALSE
    ELSE IF site_config.allow_patterns # <<>> THEN AllowMatches(site_config, url)
    ELSE TRUE


\* WebScraper.should_crawl_url(url, site_config, base_url)
should_crawl_url(url, site_config, base_url) ==
    IF ~is_same_domain(url, base_url) THEN FALSE
    ELSE IF DenyMatches(site_config, url) THEN FALSE
    ELSE IF site_config.allow_patterns # <<>> THEN AllowMatches(site_config, url)
    ELSE IF \E k \in 1..Len(exclude_extensions) : SearchExtension(exclude_extensions[k], url)
         THEN FALSE
    ELSE TRUE

\* the set `links` that extract_links builds from the hrefs of the anchors of
\* a page, in document order
LinkSet(hrefs, base_url) ==
    {u \in {normalize_url(hrefs[i], base_url) : i \in {j \in 1..Len(hrefs) : hrefs[j] # << >>}} :
        is_same_domain(u, base_url)}

\* every order list(links) may give to a set: the iteration order of a set of
\* strings depends on the per-process hash seed
ListsOf(S) ==
    {f \in [1..Cardinality(S) -> S] : \A i, j \in 1..Cardinality(S) : f[i] = f[j] => i = j}

\* WebScraper.extract_links(soup, base_url): the lists it may return
extract_links(hrefs, base_url) == ListsOf(LinkSet(hrefs, base_url))

(***************************************************************************)
(* The web the crawler runs against: two hosts, each page with the hrefs   *)
(* of its anchors in document order.  A request for a page the server has  *)
(* may also fail (network failure, 5xx); a request for any other path      *)
(* fails (404).                                                            *)
(***************************************************************************)
Https == <<"h", "t", "t", "p", "s", ":", "/", "/">>
Http == <<"h", "t", "t", "p", ":", "/", "/">>
HostE == <<"e", ".", "t">>
HostO == <<"o", ".", "t">>

WebPages == {
    [host |-> HostE, path |-> <<"/">>, content |-> "home of e.t",
     hrefs |-> << <<"/", "a">>, <<"/", "b", "/">>, Https \o HostO \o <<"/", "x">>,
                  <<"/", "c", "#", "t">>, <<"/", "a">> >>],
    [host |-> HostE, path |-> <<"/", "a">>, content |-> "article a",
     hrefs |-> << <<"/", "b">>, <<"/", "d">>, <<"/">> >>],
    [host |-> HostE, path |-> <<"/", "b">>, content |-> "article b",
     hrefs |-> << <<"/", "d">>, <<"/", "f", ".", "p", "d", "f">>,
                  Https \o <<"E", ".", "t">> \o <<"/", "c">> >>],
    [host |-> HostE, path |-> <<"/", "c">>, content |-> "",
     hrefs |-> << Https \o <<"w", ".">> \o HostE \o <<"/", "a">> >>],
    [host |-> HostE, path |-> <<"/", "d">>, content |-> "article d",
     hrefs |-> << <<"/", "e">> >>],
    [host |-> HostE, path |-> <<"/", "e">>, content |-> "article e", hrefs |-> << >>],
    [host |-> HostO, path |-> <<"/">>, content |-> "home of o.t",
     hrefs |-> << <<"/", "x">>, Https \o HostE \o <<"/", "a">> >>],
    [host |-> HostO, path |-> <<"/", "x">>, content |-> "article x",
     hrefs |-> << <<"/">>, <<"/", "y">> >>],
    [host |-> HostO, path |-> <<"/", "y">>, content |-> "article y", hrefs |-> << >>] }

\* the pages the server answers a GET of url with: host names are compared
\* without case and an empty path is the root
PagesAt(url) ==
    LET p == urlparse(url)
    IN  {w \in WebPages : /\ w.host = Lower(p.netloc)
                          /\ w.path = (IF p.path = <<>> THEN <<"/">> ELSE p.path)}

\* UnipostWebScraper.normalize_url: "https://" is put before a URL without
\* protocol
WithProtocol(url) ==
    IF StartsWith(url, Http) \/ StartsWith(url, Https) THEN url ELSE Https \o url

\* UnipostWebScraper.normalize_url: scheme, netloc and path are put together
\* and a trailing slash is removed unless the path is the root
SchemeNetlocPath(parsed) ==
    StripSlash(parsed.scheme \o <<":", "/", "/">> \o parsed.netloc \o parsed.path, parsed.path)

\* UnipostWebScraper.normalize_url(url, base_url)
Unipost_normalize_url(url, base_url) ==
    SchemeNetlocPath(urlparse(WithProtocol(IF base_url # None THEN urljoin(base_url, url)
                                           ELSE url)))

(***************************************************************************)
(* Site configurations: the rows of Site that get_sites_from_database      *)
(* returns.  max_depth and max_pages are PositiveIntegerFields (>= 0).     *)
(***************************************************************************)
SiteUrls == {Https \o HostE \o <<"/">>, HostO}

\* the configuration of the end-to-end scenario of the specification
ScenarioConfig ==
    [url |-> Https \o HostE \o <<"/">>, enable_recursive_crawling |-> TRUE,
     max_depth |-> 1, max_pages |-> 5, allow_patterns |-> << >>, deny_patterns |-> << >>]

SiteConfigs ==
    [url : SiteUrls,
     enable_recursive_crawling : BOOLEAN,
     max_depth : 0..MaxDepth,
     max_pages : 0..MaxPages,
     allow_patterns : {<< >>},
     deny_patterns : {<< >>, << <<"/", "D">> >>}]
    \cup
    \* the end-to-end scenario, and a row without URL
    {ScenarioConfig,
     [url |-> << >>, enable_recursive_crawling |-> TRUE,
      max_depth |-> 1, max_pages |-> 1, allow_patterns |-> << >>, deny_patterns |-> << >>]}

\* the calls of crawl_site_recursive, in the order of the sites list
Tasks == {1, 2}

\* the parameter of a call that has not begun or whose frame is gone
NoConfig == [url |-> << >>, enable_recursive_crawling |-> FALSE, max_depth |-> 0,
             max_pages |-> 0, allow_patterns |-> << >>, deny_patterns |-> << >>]

(***************************************************************************)
(* State.                                                                  *)
(***************************************************************************)
VARIABLES
    visited_urls,        \* self.visited_urls of the WebScraper object
    url_queue,           \* self.url_queue of the WebScraper object: <<url, depth>> entries
    site_config,         \* the parameter site_config of each call: a row of the sites list
    pc,                  \* where each call stands: idle, loop, fetch, sleep, done,
                         \* raised (left by an exception), collected
    base_url,            \* the local base_url of each call
    scraped_pages,       \* the local scraped_pages of each call
    pages_scraped,       \* the local pages_scraped of each call
    current,             \* the locals current_url and depth of each call
    returned,            \* the list each call returned
    fetched,             \* history: the requests each call issued, in order
    stale,               \* history: the object held visited URLs and queue entries when the call began
    cancel_requested,    \* the caller's cancellation/deadline signal
    url_call,            \* the last call of a URL function made on its own: arguments and result
    embedding_rows,      \* the rows of the Embedding table (Embedding.objects)
    dedup_run,           \* the last run of a duplicate remover: arguments and result
    vector_call,         \* the last call of a VectorStore function: arguments and result
    cluster_run          \* the call of get_content_clusters_sync: its locals and its result

\* the state of the tools that are no part of a crawl: they stand still
\* while a crawl runs
store_vars == <<vector_call, cluster_run>>
tool_vars == <<url_call, embedding_rows, dedup_run, store_vars>>

vars == <<visited_urls, url_queue, site_config, pc, base_url, scraped_pages, pages_scraped,
          current, returned, fetched, stale, cancel_requested, tool_vars>>

\* the positions at which a call is suspended in an await or not running; the
\* event loop runs one call at a time between two awaits
Suspended == {"idle", "fetch", "sleep", "done", "raised", "collected"}

\* no other call is between two awaits
HoldsLoop(t) == \A o \in Tasks \ {t} : pc[o] \in Suspended

\* no URL function has been called on its own
NoCall == [op |-> "none", url |-> << >>, base_url |-> << >>, site_config |-> NoConfig,
           result |-> << >>]

\* no duplicate remover has run
NoRun == [op |-> "none", argv |-> << >>, confirm |-> FALSE, input |-> << >>,
          failed |-> {}, before |-> {}, stats |-> << >>]

\* no VectorStore function has been called
NoVectorCall == [op |-> "none"]

\* get_content_clusters_sync has not been called
NoClusterRun == [at |-> "idle"]

\* the crawler's state after WebScraper()
InitCrawler ==
    /\ visited_urls = {}
    /\ url_queue = << >>
    /\ site_config = [t \in Tasks |-> NoConfig]
    /\ pc = [t \in Tasks |-> "idle"]
    /\ base_url = [t \in Tasks |-> << >>]
    /\ scraped_pages = [t \in Tasks |-> << >>]
    /\ pages_scraped = [t \in Tasks |-> 0]
    /\ current = [t \in Tasks |-> << << >>, 0 >>]
    /\ returned = [t \in Tasks |-> << >>]
    /\ fetched = [t \in Tasks |-> << >>]
    /\ stale = [t \in Tasks |-> FALSE]
    /\ cancel_requested = FALSE

Init ==
    /\ InitCrawler
    /\ url_call = NoCall
    /\ embedding_rows = {}
    /\ dedup_run = NoRun
    /\ vector_call = NoVectorCall
    /\ cluster_run = NoClusterRun

(***************************************************************************)
(* WebScraper.scrape_page_content.                                         *)
(***************************************************************************)
\* the URL scrape_page_content requests: "https://" is put before a URL
\* without protocol
RequestUrl(url) ==
    IF StartsWith(url, Http) \/ StartsWith(url, Https) THEN url ELSE Https \o url

\* the record scrape_page_content builds from a 2xx response carrying page
\* w, with `links` the list extract_links returned
SuccessPage(url, w, links) ==
    [url |-> RequestUrl(url), content |-> w.content, links |-> links, status |-> "success"]

\* the record scrape_page_content builds in its except clause
ErrorPage(url) ==
    [url |-> RequestUrl(url), content |-> "", links |-> << >>, status |-> "error"]

\* scrape_page_content on a 2xx response: the record is returned
Scraped(url, w, links) == [raised |-> FALSE, page |-> SuccessPage(url, w, links)]

\* scrape_page_content without its except clause: the exception leaves it
HandleException_reraise(url) == [raised |-> TRUE, page |-> ErrorPage(url)]

\* scrape_page_content when the request raises (network failure, or
\* raise_for_status on a status that is not 2xx): `except Exception` logs
\* the exception and returns the error record
HandleException(url) == [raised |-> FALSE, page |-> ErrorPage(url)]

(***************************************************************************)
(* WebScraper.crawl_site_recursive.                                        *)
(***************************************************************************)
\* the while condition with <= for <
LoopCondition_inclusive(queue, scraped, max_pages) == queue # << >> /\ scraped <= max_pages

\* the condition of the while loop
LoopCondition(queue, scraped, max_pages) == queue # << >> /\ scraped < max_pages

\* url_queue.pop() for popleft(): the last entry is taken
PopLeft_right(queue) ==
    [entry |-> queue[Len(queue)], rest |-> SubSeq(queue, 1, Len(queue) - 1)]

\* url_queue.popleft(): the entry taken and the queue left
PopLeft(queue) == [entry |-> Head(queue), rest |-> Tail(queue)]

\* the loop without the test of the visited set
AlreadyVisited_never(url, visited) == FALSE

\* the test `current_url in self.visited_urls`
AlreadyVisited(url, visited) == url \in visited

\* the start of a call without the two clear() calls
ClearedControls_kept(visited, queue) == [visited |-> visited, queue |-> queue]

\* self.visited_urls.clear() and self.url_queue.clear(): the two collections after them
ClearedControls(visited, queue) == [visited |-> {}, queue |-> << >>]

\* the condition with depth <= max_depth for depth < max_depth
MayEnqueue_inclusive(enable_recursive, depth, max_depth, links) ==
    enable_recursive /\ depth <= max_depth /\ links # << >>

\* the condition under which the links of a page are enqueued
MayEnqueue(enable_recursive, depth, max_depth, links) ==
    enable_recursive /\ depth < max_depth /\ links # << >>

\* the loop taking every record for a page scraped
Succeeded_always(page_result) == TRUE

\* the test `page_result['status'] == 'success'`
Succeeded(page_result) == page_result.status = "success"

\* the for loop appending the links of a page at depth + 1
EnqueueLinks(queue, links, visited, cfg, base, depth) ==
    LET Wanted(link) == link \notin visited /\ should_crawl_url(link, cfg, base)
        kept == SelectSeq(links, Wanted)
    IN  queue \o [i \in 1..Len(kept) |-> <<kept[i], depth + 1>>]

\* the start of a call with parameter cfg, up to the while loop
Begin(t, cfg) ==
    /\ pc[t] = "idle"
    /\ HoldsLoop(t)
    /\ site_config' = [site_config EXCEPT ![t] = cfg]
    /\ IF cfg.url = << >>
       THEN /\ pc' = [pc EXCEPT ![t] = "done"]
            /\ returned' = [returned EXCEPT ![t] = << >>]
            /\ UNCHANGED <<visited_urls, url_queue, base_url, scraped_pages,
                           pages_scraped, stale>>
       ELSE LET b == normalize_url(RequestUrl(cfg.url), None)
                c == ClearedControls(visited_urls, url_queue)
            IN  /\ base_url' = [base_url EXCEPT ![t] = b]
                /\ visited_urls' = c.visited
                /\ url_queue' = Append(c.queue, <<b, 0>>)
                /\ scraped_pages' = [scraped_pages EXCEPT ![t] = << >>]
                /\ pages_scraped' = [pages_scraped EXCEPT ![t] = 0]
                /\ stale' = [stale EXCEPT ![t] = visited_urls # {} /\ url_queue # << >>]
                /\ pc' = [pc EXCEPT ![t] = "loop"]
                /\ UNCHANGED returned
    /\ UNCHANGED <<current, fetched, cancel_requested, tool_vars>>

\* an iteration that takes an entry already visited: continue
DequeueSkip(t) ==
    /\ pc[t] = "loop"
    /\ HoldsLoop(t)
    /\ LoopCondition(url_queue, pages_scraped[t], site_config[t].max_pages)
    /\ AlreadyVisited(PopLeft(url_queue).entry[1], visited_urls)
    /\ url_queue' = PopLeft(url_queue).rest
    /\ current' = [current EXCEPT ![t] = PopLeft(url_queue).entry]
    /\ UNCHANGED <<visited_urls, site_config, pc, base_url, scraped_pages, pages_scraped,
                   returned, fetched, stale, cancel_requested, tool_vars>>

\* an iteration that takes a new entry: mark it visited and request the page
DequeueFetch(t) ==
    /\ pc[t] = "loop"
    /\ HoldsLoop(t)
    /\ LoopCondition(url_queue, pages_scraped[t], site_config[t].max_pages)
    /\ ~AlreadyVisited(PopLeft(url_queue).entry[1], visited_urls)
    /\ url_queue' = PopLeft(url_queue).rest
    /\ current' = [current EXCEPT ![t] = PopLeft(url_queue).entry]
    /\ visited_urls' = visited_urls \cup {PopLeft(url_queue).entry[1]}
    /\ fetched' = [fetched EXCEPT ![t] = Append(@, [url |-> PopLeft(url_queue).entry[1],
                                                   depth |-> PopLeft(url_queue).entry[2],
                                                   response |-> "pending"])]
    /\ pc' = [pc EXCEPT ![t] = "fetch"]
    /\ UNCHANGED <<site_config, base_url, scraped_pages, pages_scraped, returned,
                   stale, cancel_requested, tool_vars>>

\* the rest of an iteration, from the outcome of scrape_page_content to the
\* sleep; an exception would leave the call
AfterScrape(t, outcome) ==
    /\ IF outcome.raised
       THEN /\ pc' = [pc EXCEPT ![t] = "raised"]
            /\ UNCHANGED <<scraped_pages, pages_scraped, url_queue>>
       ELSE /\ pc' = [pc EXCEPT ![t] = "sleep"]
            /\ IF Succeeded(outcome.page)
               THEN /\ scraped_pages' = [scraped_pages EXCEPT ![t] = Append(@, outcome.page)]
                    /\ pages_scraped' = [pages_scraped EXCEPT ![t] = @ + 1]
                    /\ IF MayEnqueue(site_config[t].enable_recursive_crawling, current[t][2],
                                     site_config[t].max_depth, outcome.page.links)
                       THEN url_queue' = EnqueueLinks(url_queue, outcome.page.links,
                                                      visited_urls, site_config[t],
                                                      base_url[t], current[t][2])
                       ELSE UNCHANGED url_queue
               ELSE UNCHANGED <<scraped_pages, pages_scraped, url_queue>>
    /\ UNCHANGED <<visited_urls, site_config, base_url, current, returned,
                   stale, cancel_requested, tool_vars>>

\* the request is answered 2xx and the page is parsed
ScrapeSuccess(t) ==
    /\ pc[t] = "fetch"
    /\ HoldsLoop(t)
    /\ fetched' = [fetched EXCEPT ![t][Len(fetched[t])].response = "ok"]
    /\ \E w \in PagesAt(RequestUrl(current[t][1])) :
         \E links \in extract_links(w.hrefs, RequestUrl(current[t][1])) :
            AfterScrape(t, Scraped(current[t][1], w, links))

\* the request fails: network failure or a status that raise_for_status rejects
ScrapeError(t) ==
    /\ pc[t] = "fetch"
    /\ HoldsLoop(t)
    /\ fetched' = [fetched EXCEPT ![t][Len(fetched[t])].response = "failed"]
    /\ AfterScrape(t, HandleException(current[t][1]))

\* asyncio.sleep(1) is over: back to the while condition
Wake(t) ==
    /\ pc[t] = "sleep"
    /\ HoldsLoop(t)
    /\ pc' = [pc EXCEPT ![t] = "loop"]
    /\ UNCHANGED <<visited_urls, url_queue, site_config, base_url, scraped_pages, pages_scraped,
                   current, returned, fetched, stale, cancel_requested, tool_vars>>

\* the while condition is false: return scraped_pages, which the caller
\* appends to all_scraped_results
Return(t) ==
    /\ pc[t] = "loop"
    /\ HoldsLoop(t)
    /\ ~LoopCondition(url_queue, pages_scraped[t], site_config[t].max_pages)
    /\ returned' = [returned EXCEPT ![t] = scraped_pages[t]]
    /\ pc' = [pc EXCEPT ![t] = "done"]
    /\ UNCHANGED <<visited_urls, url_queue, site_config, base_url, scraped_pages, pages_scraped,
                   current, fetched, stale, cancel_requested, tool_vars>>

\* a step of call t after its start
Step(t) ==
    \/ DequeueSkip(t)
    \/ DequeueFetch(t)
    \/ ScrapeSuccess(t)
    \/ ScrapeError(t)
    \/ Wake(t)
    \/ Return(t)

(***************************************************************************)
(* WebScraper.scrape_all_sites: the sites are crawled one after another.   *)
(***************************************************************************)
\* the for loop calls crawl_site_recursive for the next site of the list
\* when the results of the sites before it have been collected
CallInTurn(t) ==
    /\ \A o \in Tasks : o < t => pc[o] = "collected"
    /\ \E cfg \in SiteConfigs : Begin(t, cfg)

\* the for loop takes the list a call returned (all_scraped_results.extend,
\* which the model does not keep) and sleeps, or logs the exception that
\* ended the call; the frame of the call is gone
Collect(t) ==
    /\ pc[t] \in {"done", "raised"}
    /\ pc' = [pc EXCEPT ![t] = "collected"]
    /\ site_config' = [site_config EXCEPT ![t] = NoConfig]
    /\ base_url' = [base_url EXCEPT ![t] = << >>]
    /\ scraped_pages' = [scraped_pages EXCEPT ![t] = << >>]
    /\ pages_scraped' = [pages_scraped EXCEPT ![t] = 0]
    /\ current' = [current EXCEPT ![t] = << << >>, 0 >>]
    /\ returned' = [returned EXCEPT ![t] = << >>]
    /\ fetched' = [fetched EXCEPT ![t] = << >>]
    /\ stale' = [stale EXCEPT ![t] = FALSE]
    /\ UNCHANGED <<visited_urls, url_queue, cancel_requested, tool_vars>>

Next == \E t \in Tasks : CallInTurn(t) \/ Step(t) \/ Collect(t)

Spec == Init /\ [][Next]_vars

\* the event loop runs a call that is ready to run
Resume ==
    \E t \in Tasks : \/ CallInTurn(t)
                     \/ DequeueSkip(t)
                     \/ DequeueFetch(t)
                     \/ Wake(t)
                     \/ Return(t)
                     \/ Collect(t)

\* a request that is not answered fails: the client is built with timeout=30.0
TimeOut == \E t \in Tasks : ScrapeError(t)

FairSpec == Spec /\ WF_vars(Resume) /\ WF_vars(TimeOut)

(***************************************************************************)
(* The crawls of two distinct sites as concurrent tasks on one WebScraper  *)
(* object (section 5 of the specification).                                *)
(***************************************************************************)
\* the sites list of the concurrent crawls: task t crawls ConcurrentSites[t]
ConcurrentSites ==
    << [url |-> Https \o HostE \o <<"/">>, enable_recursive_crawling |-> TRUE,
        max_depth |-> 2, max_pages |-> 2,
        allow_patterns |-> << >>, deny_patterns |-> << >>],
       [url |-> HostO, enable_recursive_crawling |-> TRUE,
        max_depth |-> 1, max_pages |-> 1,
        allow_patterns |-> << >>, deny_patterns |-> << >>] >>

\* a task is created for each site of the list and starts when the event
\* loop runs it
CallConcurrently(t) == Begin(t, ConcurrentSites[t])

NextConcurrent == \E t \in Tasks : CallConcurrently(t) \/ Step(t)

SpecConcurrent == Init /\ [][NextConcurrent]_vars

(***************************************************************************)
(* A caller that imposes a deadline on the crawls of scrape_all_sites.     *)
(***************************************************************************)
\* the caller raises its cancellation/deadline signal while a call is
\* suspended in an await
RequestCancel ==
    /\ ~cancel_requested
    /\ \E t \in Tasks : pc[t] \in {"fetch", "sleep"}
    /\ cancel_requested' = TRUE
    /\ UNCHANGED <<visited_urls, url_queue, site_config, pc, base_url, scraped_pages,
                   pages_scraped, current, returned, fetched, stale, tool_vars>>

NextCancel == Next \/ RequestCancel

SpecCancel == Init /\ [][NextCancel]_vars

(***************************************************************************)
(* Properties.                                                             *)
(***************************************************************************)
\* call t is inside its while loop
Running(t) == pc[t] \in {"loop", "fetch", "sleep"}

\* call t is crawling or has returned from a crawl
Crawled(t) == Running(t) \/ (pc[t] = "done" /\ base_url[t] # << >>)

\* the host of a URL, lower-cased
HostOf(url) == Lower(urlparse(url).netloc)

\* the URLs call t has requested
FetchedUrls(t) == {fetched[t][i].url : i \in 1..Len(fetched[t])}

\* queue q2 is queue q1 with entries appended
Extends(q1, q2) == Len(q1) <= Len(q2) /\ SubSeq(q2, 1, Len(q1)) = q1

\* C1: within one run no normalized URL is requested twice, every URL is in
\* the visited set before its request, and the number of requests equals
\* the size of the visited set, failed requests included
C1_NoRefetch ==
    \A t \in Tasks : Crawled(t) =>
        /\ \A i, j \in 1..Len(fetched[t]) : fetched[t][i].url = fetched[t][j].url => i = j
        /\ FetchedUrls(t) \subseteq visited_urls
        /\ Len(fetched[t]) = Cardinality(visited_urls)

\* C1 witness: a run in which a request failed and in which the entry just
\* dequeued was skipped because its URL had been visited
C1_Witness ==
    \E t \in Tasks :
        /\ pc[t] = "loop"
        /\ Len(fetched[t]) >= 2
        /\ \E i \in 1..Len(fetched[t]) : fetched[t][i].response = "failed"
        /\ current[t][1] \in visited_urls
        /\ current[t] # <<fetched[t][Len(fetched[t])].url, fetched[t][Len(fetched[t])].depth>>

\* C2: pages_scraped is the length of the result list and never exceeds
\* max_pages; the result list and the list returned hold only pages with
\* status success
C2_PageBudget ==
    \A t \in Tasks :
        /\ pages_scraped[t] = Len(scraped_pages[t])
        /\ pages_scraped[t] <= site_config[t].max_pages
        /\ \A i \in 1..Len(scraped_pages[t]) : scraped_pages[t][i].status = "success"
        /\ pc[t] = "done" =>
              /\ Len(returned[t]) <= site_config[t].max_pages
              /\ \A i \in 1..Len(returned[t]) : returned[t][i].status = "success"

\* C2 witness: a call returned max_pages >= 2 pages while entries were left
\* in the queue
C2_Witness ==
    \E t \in Tasks :
        /\ pc[t] = "done"
        /\ site_config[t].max_pages >= 2
        /\ Len(returned[t]) = site_config[t].max_pages
        /\ url_queue # << >>

\* every entry of the queue has a depth of at most max_depth
QueueDepthBound ==
    \A t \in Tasks : Running(t) =>
        \A i \in 1..Len(url_queue) : url_queue[i][2] <= site_config[t].max_depth

\* the step that handles a scraped page appends entries only when recursion
\* is enabled and the page's depth is below max_depth, and appends them at
\* the page's depth + 1
EnqueueRule ==
    \A t \in Tasks : (pc[t] = "fetch" /\ pc'[t] = "sleep") =>
        /\ Extends(url_queue, url_queue')
        /\ url_queue' # url_queue =>
              /\ site_config[t].enable_recursive_crawling
              /\ current[t][2] < site_config[t].max_depth
        /\ \A i \in (Len(url_queue) + 1)..Len(url_queue') :
              url_queue'[i][2] = current[t][2] + 1

\* C3: every queue entry has depth <= max_depth; links are enqueued at depth
\* d + 1 only when recursion is enabled and d < max_depth, so a page at
\* depth max_depth is fetched and none of its links is enqueued
C3_DepthBound == []QueueDepthBound /\ [][EnqueueRule]_vars

\* C3 witness: a page with links was scraped at depth max_depth >= 1 with
\* recursion enabled
C3_Witness ==
    \E t \in Tasks :
        /\ pc[t] = "sleep"
        /\ site_config[t].enable_recursive_crawling
        /\ site_config[t].max_depth >= 1
        /\ current[t][2] = site_config[t].max_depth
        /\ scraped_pages[t] # << >>
        /\ scraped_pages[t][Len(scraped_pages[t])].url = current[t][1]
        /\ scraped_pages[t][Len(scraped_pages[t])].links # << >>

\* the depths of the requests of a run never decrease, the depths in the
\* queue never decrease from front to back, and no entry waiting is
\* shallower than the page requested last
DepthOrder ==
    \A t \in Tasks : Crawled(t) =>
        /\ \A i, j \in 1..Len(fetched[t]) : i <= j => fetched[t][i].depth <= fetched[t][j].depth
        /\ Running(t) =>
              /\ \A i, j \in 1..Len(url_queue) : i <= j => url_queue[i][2] <= url_queue[j][2]
              /\ \A i \in 1..Len(url_queue) : \A j \in 1..Len(fetched[t]) :
                    fetched[t][j].depth <= url_queue[i][2]

\* an iteration takes the entry at the front of the queue, and a scraped
\* page's links go to the back
FifoStep ==
    \A t \in Tasks :
        /\ (pc[t] = "loop" /\ pc'[t] \in {"loop", "fetch"} /\ url_queue' # url_queue) =>
              /\ current'[t] = Head(url_queue)
              /\ url_queue' = Tail(url_queue)
        /\ (pc[t] = "fetch" /\ pc'[t] = "sleep") => Extends(url_queue, url_queue')

\* C4: the queue is FIFO: entries leave it in the order they entered it, so
\* the depths of the pages requested never decrease and no page of depth
\* d + 1 is requested while an entry of depth d waits
C4_Fifo == []DepthOrder /\ [][FifoStep]_vars

\* C4 witness: a run has requested pages of different depths and entries of
\* different depths wait in the queue
C4_Witness ==
    \E t \in Tasks :
        /\ Running(t)
        /\ Len(fetched[t]) >= 3
        /\ fetched[t][1].depth < fetched[t][Len(fetched[t])].depth
        /\ Len(url_queue) >= 2
        /\ url_queue[1][2] < url_queue[Len(url_queue)][2]

\* C5: every URL in the queue and every URL requested has the host of the
\* base URL, compared without case; with max_depth = 1, max_pages = 5 and
\* recursion, the depth-0 page with three distinct same-domain links and a
\* cross-domain link leaves exactly three entries of depth 1 in the queue
C5_SameHost ==
    \A t \in Tasks : Running(t) =>
        /\ \A i \in 1..Len(url_queue) : HostOf(url_queue[i][1]) = HostOf(base_url[t])
        /\ \A u \in FetchedUrls(t) : HostOf(u) = HostOf(base_url[t])
        /\ (/\ site_config[t] = ScenarioConfig
            /\ pc[t] = "sleep"
            /\ Len(fetched[t]) = 1
            /\ fetched[t][1].response = "ok") =>
              /\ Len(url_queue) = 3
              /\ \A i \in 1..3 : url_queue[i][2] = 1
              /\ \A i, j \in 1..3 : url_queue[i][1] = url_queue[j][1] => i = j

\* C5 witness: the scenario's depth-0 page, with its cross-domain link, has
\* been scraped
C5_Witness ==
    \E t \in Tasks :
        /\ site_config[t] = ScenarioConfig
        /\ pc[t] = "sleep"
        /\ Len(fetched[t]) = 1
        /\ fetched[t][1].response = "ok"
        /\ Len(scraped_pages[t]) = 1

\* scrape_page_content answers a failed request with a record of status
\* error, without content and links, and no call is left by an exception
ErrorRecord ==
    \A t \in Tasks :
        /\ pc[t] # "raised"
        /\ pc[t] = "fetch" =>
              /\ ~HandleException(current[t][1]).raised
              /\ HandleException(current[t][1]).page.status = "error"
              /\ HandleException(current[t][1]).page.content = ""
              /\ HandleException(current[t][1]).page.links = << >>

\* the URLs of the requests of a log that were answered
SuccessUrls(log) ==
    LET Ok(f) == f.response = "ok"
        oks == SelectSeq(log, Ok)
    IN  [i \in 1..Len(oks) |-> oks[i].url]

\* the result list holds the pages of the answered requests, in order, each
\* with status success, and it is what the call returns
ReturnsSuccesses ==
    \A t \in Tasks : Crawled(t) =>
        /\ pc[t] # "fetch" =>
              [i \in 1..Len(scraped_pages[t]) |-> scraped_pages[t][i].url] = SuccessUrls(fetched[t])
        /\ pc[t] = "done" => returned[t] = scraped_pages[t]

\* the step that handles a failed request changes neither the result list
\* nor the queue and leads to the sleep that ends the iteration
FailedFetchStep ==
    \A t \in Tasks :
        (/\ pc[t] = "fetch"
         /\ Len(fetched'[t]) = Len(fetched[t])
         /\ fetched'[t][Len(fetched[t])].response = "failed") =>
            /\ pc'[t] = "sleep"
            /\ scraped_pages'[t] = scraped_pages[t]
            /\ pages_scraped'[t] = pages_scraped[t]
            /\ url_queue' = url_queue

\* C6: a failing request never raises out of scrape_page_content but gives
\* an error record without content and links; the loop then leaves the
\* result list and the queue unchanged and goes on, and the call returns
\* every page whose request succeeded
C6_FetchErrorIsolated == [](ErrorRecord /\ ReturnsSuccesses) /\ [][FailedFetchStep]_vars

\* C6 witness: a call returned pages of which one was requested after a
\* failed request
C6_Witness ==
    \E t \in Tasks :
        /\ pc[t] = "done"
        /\ returned[t] # << >>
        /\ \E i, j \in 1..Len(fetched[t]) :
              i < j /\ fetched[t][i].response = "failed" /\ fetched[t][j].response = "ok"

\* a call that leaves its loop does so with an empty queue or with
\* pages_scraped = max_pages, and returns the pages scraped
ExitRule ==
    \A t \in Tasks : (pc[t] = "loop" /\ pc'[t] = "done") =>
        /\ url_queue = << >> \/ pages_scraped[t] = site_config[t].max_pages
        /\ returned'[t] = scraped_pages[t]

\* C7: every crawl that has begun returns eventually, and when it returns
\* the queue is empty or pages_scraped = max_pages, and the pages scraped up
\* to then are returned
C7_Terminates ==
    /\ \A t \in Tasks : Running(t) ~> (pc[t] = "done")
    /\ [][ExitRule]_vars

\* C7 witness: a call returned pages, fewer than max_pages, with the queue
\* empty
C7_Witness ==
    \E t \in Tasks :
        /\ pc[t] = "done"
        /\ url_queue = << >>
        /\ returned[t] # << >>
        /\ Len(returned[t]) < site_config[t].max_pages

\* C8: no step of one crawl changes the visited set or the queue while
\* another crawl is running
C8_ExclusiveOwnership ==
    [][\A t, o \in Tasks :
          (o # t /\ Running(t) /\ (CallConcurrently(o) \/ Step(o))) =>
              UNCHANGED <<visited_urls, url_queue>>]_vars

\* C9: a call starts with an empty visited set and a queue holding only
\* (base_url, 0), whatever an earlier call left in them, and while it runs
\* the visited set holds exactly the URLs it requested itself
C9_FreshRun ==
    \A t \in Tasks :
        /\ (pc[t] = "loop" /\ fetched[t] = << >>) =>
              /\ visited_urls = {}
              /\ url_queue = << <<base_url[t], 0>> >>
        /\ Running(t) => visited_urls = FetchedUrls(t)

\* C9 witness: a call that began on an object holding the visited URLs and
\* the unprocessed queue entries of an earlier call has requested a page
C9_Witness ==
    \E t \in Tasks : stale[t] /\ Running(t) /\ Len(fetched[t]) >= 1

\* C10: once the caller has raised its signal no further request is started
C10_CancelStopsFetching ==
    [][cancel_requested => \A t \in Tasks : Len(fetched'[t]) <= Len(fetched[t])]_vars

\* C11: a call whose site configuration has max_pages < 1 is rejected before
\* the crawl starts: it ends by signalling the error, with nothing enqueued
\* and nothing requested
C11_ConfigRejected ==
    \A t \in Tasks :
        (site_config[t].url # << >> /\ site_config[t].max_pages < 1) =>
            /\ pc[t] = "raised"
            /\ url_queue = << >>
            /\ fetched[t] = << >>

(***************************************************************************)
(* The URL functions called on their own: should_crawl_url and             *)
(* normalize_url of WebScraper, and normalize_url of UnipostWebScraper     *)
(* (unipost_automation/src/scraping/webscraper.py).  A pattern field of a  *)
(* site configuration is the sequence of its lines, each stripped; << >>   *)
(* is the empty field and << << >> >> a field of white space only.  The    *)
(* patterns are literals.  The functions keep no state, so a behaviour     *)
(* makes one call.                                                         *)
(***************************************************************************)
\* the variables of a crawl
crawl_vars == <<visited_urls, url_queue, site_config, pc, base_url, scraped_pages,
                pages_scraped, current, returned, fetched, stale, cancel_requested>>

\* the parts the URLs of the calls are made of
TestHosts == {HostE, <<"E", ".", "t">>, HostO}
TestPaths == {<< >>, <<"/">>, <<"/", "a">>, <<"/", "a", "/">>, <<"/", "a", "/", "/">>,
              <<"/", "f", ".", "p", "d", "f">>, <<"/", "F", ".", "P", "D", "F">>}
TestQueries == {<< >>, <<"?", "q", "=", "1">>, <<"?", "q", "=", "/">>}
TestFragments == {<< >>, <<"#", "t">>}

\* the absolute URLs of the calls
TestUrls == {Https \o h \o p \o q \o f :
                h \in TestHosts, p \in TestPaths, q \in TestQueries, f \in TestFragments}

\* hrefs that are no absolute URLs
RelativeRefs == {<<"/", "a", "/">>, <<"b", "/">>, <<"#", "t">>, <<"?", "q", "=", "1">>,
                 <<"/", "p", "o", "s", "t">>}

\* URLs without protocol
BareUrls == {HostE, HostE \o <<"/">>, HostE \o <<"/", "a", "/">>}

\* the base URLs of the calls
TestBases == {Https \o HostE, Https \o HostE \o <<"/", "a">>}

\* the deny_patterns and allow_patterns fields of the calls
DenyFields == {<< >>, << << >> >>, << <<"/", "a">> >>, << << >>, <<"/", "F">> >>}
AllowFields == {<< >>, << << >> >>, << <<"/", "a">> >>, << <<"/", "f">>, <<"/", "x">> >>}

\* the site configurations of the calls of should_crawl_url
FilterConfigs ==
    {[NoConfig EXCEPT !.url = Https \o HostE, !.deny_patterns = d, !.allow_patterns = a] :
        d \in DenyFields, a \in AllowFields}

\* a call of WebScraper.should_crawl_url
CallShouldCrawl ==
    /\ url_call = NoCall
    /\ \E url \in TestUrls, cfg \in FilterConfigs, base \in TestBases :
          url_call' = [op |-> "should_crawl_url", url |-> url, base_url |-> base,
                       site_config |-> cfg, result |-> should_crawl_url(url, cfg, base)]
    /\ UNCHANGED <<crawl_vars, embedding_rows, dedup_run, store_vars>>

\* a call of WebScraper.normalize_url
CallNormalize ==
    /\ url_call = NoCall
    /\ \E base \in TestBases \cup {None} :
          \E url \in TestUrls \cup (IF base = None THEN {} ELSE RelativeRefs) :
              url_call' = [op |-> "normalize_url", url |-> url, base_url |-> base,
                           site_config |-> NoConfig, result |-> normalize_url(url, base)]
    /\ UNCHANGED <<crawl_vars, embedding_rows, dedup_run, store_vars>>

\* two calls of WebScraper.normalize_url, the second for the URL of the first
\* with a fragment added or with a slash added to its path
CallNormalizePair ==
    /\ url_call = NoCall
    /\ \E h \in TestHosts, p \in TestPaths, q \in TestQueries, f \in TestFragments :
          \/ /\ f = << >>
             /\ url_call' = [op |-> "normalize_url, fragment added",
                             url |-> <<Https \o h \o p \o q, Https \o h \o p \o q \o <<"#", "t">> >>,
                             base_url |-> None, site_config |-> NoConfig,
                             result |-> <<normalize_url(Https \o h \o p \o q, None),
                                          normalize_url(Https \o h \o p \o q \o <<"#", "t">>, None)>>]
          \/ url_call' = [op |-> "normalize_url, slash added",
                          url |-> <<Https \o h \o p \o q \o f, Https \o h \o p \o <<"/">> \o q \o f>>,
                          base_url |-> None, site_config |-> NoConfig,
                          result |-> <<normalize_url(Https \o h \o p \o q \o f, None),
                                       normalize_url(Https \o h \o p \o <<"/">> \o q \o f, None)>>]
    /\ UNCHANGED <<crawl_vars, embedding_rows, dedup_run, store_vars>>

\* a call of UnipostWebScraper.normalize_url
CallUnipostNormalize ==
    /\ url_call = NoCall
    /\ \E base \in TestBases \cup {None} :
          \E url \in TestUrls \cup (IF base = None THEN BareUrls ELSE RelativeRefs) :
              url_call' = [op |-> "UnipostWebScraper.normalize_url", url |-> url,
                           base_url |-> base, site_config |-> NoConfig,
                           result |-> Unipost_normalize_url(url, base)]
    /\ UNCHANGED <<crawl_vars, embedding_rows, dedup_run, store_vars>>

NextUrl == CallShouldCrawl \/ CallNormalize \/ CallNormalizePair \/ CallUnipostNormalize

SpecUrl == Init /\ [][NextUrl]_vars


(***************************************************************************)
(* Properties of the URL functions.                                        *)
(***************************************************************************)
\* some pattern of a pattern field occurs in the URL, letters compared
\* without case
SomePatternMatches(field, url) ==
    \E i \in 1..Len(field) : field[i] # << >> /\ SearchLiteral(field[i], url)

\* the URL ends with "." and an extension of the blacklist, letters compared
\* without case
BlacklistedExtension(url) ==
    \E k \in 1..Len(exclude_extensions) : \E i \in 1..Len(exclude_extensions[k]) :
        EndsWith(Lower(url), <<".">> \o exclude_extensions[k][i])

\* C12: should_crawl_url returns false for every URL that a deny pattern
\* matches, also when an allow pattern matches it
C12_DenyPrecedence ==
    (/\ url_call.op = "should_crawl_url"
     /\ SomePatternMatches(url_call.site_config.deny_patterns, url_call.url)) =>
        url_call.result = FALSE

\* C12 witness: a call for a URL on the base host that a deny pattern and an
\* allow pattern both match
C12_Witness ==
    /\ url_call.op = "should_crawl_url"
    /\ HostOf(url_call.url) = HostOf(url_call.base_url)
    /\ SomePatternMatches(url_call.site_config.deny_patterns, url_call.url)
    /\ SomePatternMatches(url_call.site_config.allow_patterns, url_call.url)
    /\ url_call.result = FALSE

\* C13: a URL on another host is refused; for a URL on the base host that no
\* deny pattern matches, a non-empty allow field makes the result true
\* exactly when an allow pattern matches, and an empty allow field makes the
\* result false exactly when the URL ends with a blacklisted extension
C13_CheckOrder ==
    url_call.op = "should_crawl_url" =>
        /\ HostOf(url_call.url) # HostOf(url_call.base_url) => url_call.result = FALSE
        /\ (/\ HostOf(url_call.url) = HostOf(url_call.base_url)
            /\ ~SomePatternMatches(url_call.site_config.deny_patterns, url_call.url)) =>
              /\ url_call.site_config.allow_patterns # << >> =>
                    (url_call.result <=>
                        SomePatternMatches(url_call.site_config.allow_patterns, url_call.url))
              /\ url_call.site_config.allow_patterns = << >> =>
                    (url_call.result <=> ~BlacklistedExtension(url_call.url))

\* C13 witness: an allow pattern matches a URL on the base host that ends
\* with a blacklisted extension and that no deny pattern matches; the URL is
\* accepted
C13_Witness ==
    /\ url_call.op = "should_crawl_url"
    /\ HostOf(url_call.url) = HostOf(url_call.base_url)
    /\ ~SomePatternMatches(url_call.site_config.deny_patterns, url_call.url)
    /\ SomePatternMatches(url_call.site_config.allow_patterns, url_call.url)
    /\ BlacklistedExtension(url_call.url)
    /\ url_call.result = TRUE

\* C14: WebScraper.normalize_url is idempotent: normalising its result again
\* gives the same result
C14_NormalizeIdempotent ==
    url_call.op = "normalize_url" =>
        normalize_url(url_call.result, url_call.base_url) = url_call.result

\* the first URL of a pair of calls has no query, and its path is not empty
\* and does not end with a slash
PlainPath(url) ==
    /\ urlparse(url).query = << >>
    /\ urlparse(url).path # << >>
    /\ ~EndsWith(urlparse(url).path, <<"/">>)

\* C15 as stated: two URLs that differ only by the fragment or by a trailing
\* slash normalise to the same string
C15_SameNormalForm ==
    url_call.op \in {"normalize_url, fragment added", "normalize_url, slash added"} =>
        url_call.result[1] = url_call.result[2]

\* C15 amended: two URLs that differ only by the fragment normalise to the
\* same string; two URLs that differ only by a slash at the end of the path
\* do so when they have no query and the path without that slash is not
\* empty and does not end with a slash; a URL without path and the same URL
\* with the path "/" keep two normal forms
C15_SameNormalForm_Amended ==
    /\ url_call.op = "normalize_url, fragment added" =>
          url_call.result[1] = url_call.result[2]
    /\ (url_call.op = "normalize_url, slash added" /\ PlainPath(url_call.url[1])) =>
          url_call.result[1] = url_call.result[2]
    /\ (url_call.op = "normalize_url, slash added" /\ urlparse(url_call.url[1]).path = << >>
        /\ urlparse(url_call.url[1]).query = << >>) =>
          url_call.result[1] # url_call.result[2]

\* C15 witness: a URL with a path and a fragment and the same URL with a
\* slash after the path were normalised to one string
C15_Witness ==
    /\ url_call.op = "normalize_url, slash added"
    /\ PlainPath(url_call.url[1])
    /\ urlparse(url_call.url[1]).fragment # << >>
    /\ url_call.result[1] = url_call.result[2]
    /\ url_call.result[1] # url_call.url[1]

\* C16: UnipostWebScraper.normalize_url returns an absolute URL without a
\* trailing slash, also for a URL whose path is the root:
\* normalize_url("https://e.t/") = "https://e.t"
C16_UnipostNoTrailingSlash ==
    url_call.op = "UnipostWebScraper.normalize_url" =>
        /\ StartsWith(url_call.result, Http) \/ StartsWith(url_call.result, Https)
        /\ ~EndsWith(url_call.result, <<"/">>)
        /\ (url_call.url = Https \o HostE \o <<"/">> /\ url_call.base_url = None) =>
              url_call.result = Https \o HostE

(***************************************************************************)
(* The duplicate removers: DuplicateRemover of scraping/remove_duplicates  *)
(* (embeddings of origin webscraping, grouped by content) and              *)
(* DuplicatesRemover of brain/duplicates_remover (embeddings of origin     *)
(* business_brain, grouped by title).  A row of the Embedding table is a   *)
(* record [id, origin, title, content, created_at].  The ids are UUIDs, of  *)
(* which the code uses only whether two are equal, so the rows of a table  *)
(* are numbered in the order of what they hold.                            *)
(***************************************************************************)
\* the created_at values of the rows
Times == 1..2

\* the content values of the rows of origin webscraping: two of them are
\* equal after strip()
Contents == << <<"a">>, <<" ", "a", "\n">>, <<"b">> >>

\* the title values of the rows of origin business_brain
Titles == <<"t", "">>

\* a row of origin webscraping without its id
WebRowValue(content, created_at) ==
    [origin |-> "webscraping", title |-> "w", content |-> content, created_at |-> created_at]

\* a row of origin business_brain without its id
BrainRowValue(title, created_at) ==
    [origin |-> "business_brain", title |-> title, content |-> <<"a">>, created_at |-> created_at]

\* what a row holds besides its id, in a list
RowValues ==
    [k \in 1..(Len(Contents) * Cardinality(Times)) |->
        WebRowValue(Contents[((k - 1) \div Cardinality(Times)) + 1],
                    ((k - 1) % Cardinality(Times)) + 1)]
    \o
    [k \in 1..(Len(Titles) * Cardinality(Times)) |->
        BrainRowValue(Titles[((k - 1) \div Cardinality(Times)) + 1],
                      ((k - 1) % Cardinality(Times)) + 1)]

\* the row of id i that holds the value
Row(i, value) ==
    [id |-> i, origin |-> value.origin, title |-> value.title,
     content |-> value.content, created_at |-> value.created_at]

\* the tables of at most MaxRows rows
Tables ==
    UNION {{{Row(i, RowValues[f[i]]) : i \in 1..n} :
                f \in {g \in [1..n -> 1..Len(RowValues)] :
                          \A i \in 1..(n - 1) : g[i] <= g[i + 1]}} : n \in 0..MaxRows}

\* str(embedding.id)
Str(id) == <<"str", id>>

\* created_at.isoformat()
IsoFormat(t) == <<"isoformat", t>>

\* the characters str.strip() removes
Whitespace == {" ", "\n", "\t"}

\* str.strip()
Strip(s) ==
    LET I == {i \in 1..Len(s) : s[i] \notin Whitespace}
    IN  IF I = {} THEN << >>
        ELSE SubSeq(s, CHOOSE i \in I : \A j \in I : i <= j, CHOOSE i \in I : \A j \in I : j <= i)

\* the numbers of a set in ascending order
Ascending(S) ==
    [k \in 1..Cardinality(S) |-> CHOOSE i \in S : Cardinality({j \in S : j < i}) = k - 1]

\* the concatenation of the lists of a list
RECURSIVE Flatten(_)
Flatten(lists) == IF lists = << >> THEN << >> ELSE Head(lists) \o Flatten(Tail(lists))

\* Embedding.objects.filter(origin='webscraping').order_by('created_at') as
\* a list: the rows in ascending created_at, rows of equal created_at in an
\* order the database chooses
get_webscraping_embeddings(rows) ==
    {l \in ListsOf({r \in rows : r.origin = "webscraping"}) :
        \A i, j \in 1..Len(l) : i <= j => l[i].created_at <= l[j].created_at}

\* the key of the i-th embedding in content_groups
ContentKey(embeddings, i) == Strip(embeddings[i].content)

\* DuplicateRemover.group_by_content: the items of the dictionary, in the
\* order in which the keys were inserted
group_by_content(embeddings) ==
    LET firsts == Ascending({i \in 1..Len(embeddings) :
                      \A j \in 1..(i - 1) : ContentKey(embeddings, j) # ContentKey(embeddings, i)})
    IN  [k \in 1..Len(firsts) |->
            [content |-> ContentKey(embeddings, firsts[k]),
             group |-> SelectSeq(embeddings,
                           LAMBDA e : Strip(e.content) = ContentKey(embeddings, firsts[k]))]]

\* DuplicateRemover.find_duplicates: the groups of more than one embedding
find_duplicates(embeddings) ==
    SelectSeq(group_by_content(embeddings), LAMBDA g : Len(g.group) > 1)


\* select_embedding_to_keep keeping the latest embedding
select_embedding_to_keep_latest(duplicates) ==
    LET latest == {i \in 1..Len(duplicates) :
                      \A j \in 1..Len(duplicates) :
                          duplicates[j].created_at <= duplicates[i].created_at}
    IN  duplicates[CHOOSE i \in latest : \A j \in latest : i <= j]

\* DuplicateRemover.select_embedding_to_keep: sorted() is stable, so of the
\* embeddings with the earliest created_at the first of the list is taken
select_embedding_to_keep(duplicates) ==
    LET earliest == {i \in 1..Len(duplicates) :
                        \A j \in 1..Len(duplicates) :
                            duplicates[i].created_at <= duplicates[j].created_at}
    IN  duplicates[CHOOSE i \in earliest : \A j \in earliest : i <= j]

\* the embeddings of a group other than the one kept
OthersThan(to_keep, duplicate_group) ==
    SelectSeq(duplicate_group, LAMBDA emb : emb.id # to_keep.id)

\* remove_duplicates_dry_run: to_keep and to_remove of a group
DryRunSelection(duplicate_group) ==
    [to_keep |-> select_embedding_to_keep(duplicate_group),
     to_remove |-> OthersThan(select_embedding_to_keep(duplicate_group), duplicate_group)]

\* the length from which content_preview is cut
PreviewLength == 100

\* content_preview of a group
ContentPreview(content) ==
    IF Len(content) > PreviewLength
    THEN SubSeq(content, 1, PreviewLength) \o <<".", ".", ".">>
    ELSE content

\* the entry of a kept or removed embedding in the details
Entry(emb) == [id |-> Str(emb.id), title |-> emb.title, created_at |-> IsoFormat(emb.created_at)]

\* group_info of remove_duplicates_dry_run
GroupInfo(g) ==
    [content_preview |-> ContentPreview(g.content),
     total_duplicates |-> Len(g.group),
     to_keep |-> Entry(DryRunSelection(g.group).to_keep),
     to_remove |-> [i \in 1..Len(DryRunSelection(g.group).to_remove) |->
                       Entry(DryRunSelection(g.group).to_remove[i])]]

\* the stats of a dry run with the given details
DryRunStats(embeddings, details) ==
    [total_embeddings |-> Len(embeddings),
     duplicate_groups |-> Len(details),
     embeddings_to_remove |-> Len(Flatten([k \in 1..Len(details) |-> details[k].to_remove])),
     embeddings_to_keep |-> Len(details),
     details |-> details]

\* DuplicateRemover.remove_duplicates_dry_run(embeddings)
remove_duplicates_dry_run(embeddings) ==
    DryRunStats(embeddings,
                [k \in 1..Len(find_duplicates(embeddings)) |->
                    GroupInfo(find_duplicates(embeddings)[k])])

\* the selection of remove_duplicates keeping the latest embedding
ConfirmSelection_latest(duplicate_group) ==
    [to_keep |-> select_embedding_to_keep_latest(duplicate_group),
     to_remove |-> OthersThan(select_embedding_to_keep_latest(duplicate_group), duplicate_group)]

\* remove_duplicates with confirm deleting the embedding kept as well
ConfirmSelection_all(duplicate_group) ==
    [to_keep |-> select_embedding_to_keep(duplicate_group), to_remove |-> duplicate_group]

\* remove_duplicates with confirm: to_keep and to_remove of a group
ConfirmSelection(duplicate_group) ==
    [to_keep |-> select_embedding_to_keep(duplicate_group),
     to_remove |-> OthersThan(select_embedding_to_keep(duplicate_group), duplicate_group)]

\* the embeddings of a group that remove_duplicates deletes: delete() raises
\* for the embeddings in `failing`, which are logged and left
Deleted(duplicate_group, failing) ==
    SelectSeq(ConfirmSelection(duplicate_group).to_remove, LAMBDA emb : emb.id \notin failing)

\* the stats of remove_duplicates with confirm
ConfirmStats(embeddings, duplicates, removed_ids, kept_ids) ==
    [total_embeddings |-> Len(embeddings),
     duplicate_groups |-> Len(duplicates),
     embeddings_removed |-> Len(removed_ids),
     embeddings_kept |-> Len(kept_ids),
     removed_ids |-> removed_ids,
     kept_ids |-> kept_ids]

\* the list of the embeddings remove_duplicates deletes, group after group
DeletedList(duplicates, failing) ==
    Flatten([k \in 1..Len(duplicates) |-> Deleted(duplicates[k].group, failing)])

\* remove_duplicates with confirm: the stats returned and the ids of the
\* rows deleted
ConfirmedRemoval(embeddings, failing) ==
    LET duplicates == find_duplicates(embeddings)
        deleted == DeletedList(duplicates, failing)
    IN  [stats |-> ConfirmStats(embeddings, duplicates,
                       [i \in 1..Len(deleted) |-> Str(deleted[i].id)],
                       [k \in 1..Len(duplicates) |->
                           Str(ConfirmSelection(duplicates[k].group).to_keep.id)]),
         deleted |-> {deleted[i].id : i \in 1..Len(deleted)}]

\* remove_duplicates that takes confirm to be given
remove_duplicates_always(embeddings, confirm, failing) ==
    ConfirmedRemoval(embeddings, failing)

\* DuplicateRemover.remove_duplicates(embeddings, confirm): without confirm
\* the dry run is returned and no row is deleted
remove_duplicates(embeddings, confirm, failing) ==
    IF ~confirm
    THEN [stats |-> remove_duplicates_dry_run(embeddings), deleted |-> {}]
    ELSE ConfirmedRemoval(embeddings, failing)

\* the ids of a list of embeddings
IdsOf(embeddings) == {embeddings[i].id : i \in 1..Len(embeddings)}

\* the ids of the embeddings remove_duplicates calls delete() on
DeleteCalls(embeddings) == ConfirmedRemoval(embeddings, {}).deleted

\* the state a run of the scraping remover leaves
AfterRun(op, argv, confirm, input, failing, result) ==
    /\ dedup_run' = [op |-> op, argv |-> argv, confirm |-> confirm, input |-> input,
                     failed |-> failing, before |-> embedding_rows, stats |-> result.stats]
    /\ embedding_rows' = {r \in embedding_rows : r.id \notin result.deleted}

\* a call of remove_duplicates_dry_run with the embeddings of the table
DryRun ==
    /\ dedup_run = NoRun
    /\ \E input \in get_webscraping_embeddings(embedding_rows) :
          AfterRun("remove_duplicates_dry_run", << >>, FALSE, input, {},
                   [stats |-> remove_duplicates_dry_run(input), deleted |-> {}])
    /\ UNCHANGED <<crawl_vars, url_call, store_vars>>

\* a call of remove_duplicates with the embeddings of the table; delete()
\* may raise for any of the embeddings it is called on
RemoveDuplicates ==
    /\ dedup_run = NoRun
    /\ \E input \in get_webscraping_embeddings(embedding_rows), confirm \in BOOLEAN :
          \E failing \in (IF confirm THEN SUBSET DeleteCalls(input) ELSE {{}}) :
              LET result == remove_duplicates(input, confirm, failing)
              IN  AfterRun("remove_duplicates", << >>, confirm, input, failing, result)
    /\ UNCHANGED <<crawl_vars, url_call, store_vars>>

\* the command lines of scraping/remove_duplicates.py
CommandLines == {<< >>, <<"--confirm">>, <<"--verbose">>, <<"--confirm", "--verbose">>}

\* the command lines of brain/duplicates_remover.py
BrainCommandLines == {<< >>, <<"--preview">>}

\* whether the flag is on the command line (argparse, action='store_true')
HasFlag(argv, flag) == \E i \in 1..Len(argv) : argv[i] = flag

\* main() of remove_duplicates.py: the confirm_removal passed to run()
ConfirmRemoval(argv) == IF Len(argv) = 0 THEN TRUE ELSE HasFlag(argv, "--confirm")

\* DuplicateRemover.run(confirm_removal): nothing is done without embeddings
run(embeddings, confirm_removal, failing) ==
    IF embeddings = << >>
    THEN [stats |-> << >>, deleted |-> {}]
    ELSE remove_duplicates(embeddings, confirm_removal, failing)

\* python remove_duplicates.py argv
Main ==
    /\ dedup_run = NoRun
    /\ \E argv \in CommandLines, input \in get_webscraping_embeddings(embedding_rows) :
          \E failing \in (IF ConfirmRemoval(argv) THEN SUBSET DeleteCalls(input) ELSE {{}}) :
              LET result == run(input, ConfirmRemoval(argv), failing)
              IN  AfterRun("remove_duplicates.py", argv, ConfirmRemoval(argv), input,
                           failing, result)
    /\ UNCHANGED <<crawl_vars, url_call, store_vars>>

\* the rows of origin business_brain with the title
BrainRows(rows, title) == {r \in rows : r.origin = "business_brain" /\ r.title = title}

\* DuplicatesRemover.find_duplicates: the titles, other than the empty one,
\* that more than one row of origin business_brain has
DuplicatedTitles(rows) ==
    {r.title : r \in {x \in rows : /\ x.origin = "business_brain"
                                   /\ x.title # ""
                                   /\ Cardinality(BrainRows(rows, x.title)) > 1}}

\* the rows embeddings.first() can give under order_by('created_at')
FirstRows(rows, title) ==
    {r \in BrainRows(rows, title) : \A x \in BrainRows(rows, title) : r.created_at <= x.created_at}

\* DuplicatesRemover.run: of every duplicated title the first row stays,
\* first[title], and the others are deleted
BrainRun(rows, first) ==
    {r \in rows : r.origin = "business_brain" /\ r.title \in DuplicatedTitles(rows)
                     => r = first[r.title]}

\* python duplicates_remover.py argv
BrainMain ==
    /\ dedup_run = NoRun
    /\ \E argv \in BrainCommandLines :
          \E first \in [DuplicatedTitles(embedding_rows) -> embedding_rows] :
              /\ \A title \in DuplicatedTitles(embedding_rows) :
                    first[title] \in FirstRows(embedding_rows, title)
              /\ dedup_run' = [op |-> "duplicates_remover.py", argv |-> argv,
                               confirm |-> ~HasFlag(argv, "--preview"),
                               input |-> << >>, failed |-> {}, before |-> embedding_rows,
                               stats |-> << >>]
              /\ embedding_rows' = IF HasFlag(argv, "--preview")
                                   THEN embedding_rows
                                   ELSE BrainRun(embedding_rows, first)
    /\ UNCHANGED <<crawl_vars, url_call, store_vars>>

\* The table of embeddings is any table and the removers run on it.  The table
\* a run leaves is, but for the ids, one of the initial tables, so a behaviour
\* makes one run.
InitDedup ==
    /\ InitCrawler
    /\ url_call = NoCall
    /\ embedding_rows \in Tables
    /\ dedup_run = NoRun
    /\ vector_call = NoVectorCall
    /\ cluster_run = NoClusterRun

NextDedup ==
    \/ DryRun
    \/ RemoveDuplicates
    \/ Main
    \/ BrainMain

SpecDedup == InitDedup /\ [][NextDedup]_vars


(***************************************************************************)
(* Properties of the duplicate removers.                                   *)
(***************************************************************************)
\* the run made is a dry run of the scraping remover that returned its stats
IsDryRun ==
    /\ dedup_run.op \in {"remove_duplicates_dry_run", "remove_duplicates", "remove_duplicates.py"}
    /\ ~dedup_run.confirm
    /\ dedup_run.stats # << >>

\* the embeddings of the list whose content is the key after trimming
Members(embeddings, key) ==
    {embeddings[i] : i \in {j \in 1..Len(embeddings) : Strip(embeddings[j].content) = key}}

\* the keys that at least two embeddings of the list have
DuplicatedKeys(embeddings) ==
    {key \in {Strip(embeddings[i].content) : i \in 1..Len(embeddings)} :
        Cardinality(Members(embeddings, key)) >= 2}

\* the detail is that of the members: one of the earliest created_at is kept
\* and all the others are marked for removal
DetailOf(detail, members) ==
    /\ detail.total_duplicates = Cardinality(members)
    /\ \E kept \in members :
          /\ detail.to_keep.id = Str(kept.id)
          /\ \A other \in members : kept.created_at <= other.created_at
          /\ {detail.to_remove[i].id : i \in 1..Len(detail.to_remove)} =
                {Str(other.id) : other \in members \ {kept}}
    /\ Len(detail.to_remove) = Cardinality(members) - 1

\* C17: the dry run groups the embeddings by their content after trimming;
\* the groups of at least 2 members, and only they, are reported as duplicate
\* groups, and of each exactly one member is kept, one of the earliest
\* created_at, while all the other members are marked for removal.
C17_KeepEarliest ==
    IsDryRun =>
        /\ Len(dedup_run.stats.details) = Cardinality(DuplicatedKeys(dedup_run.input))
        /\ \A key \in DuplicatedKeys(dedup_run.input) :
              \E k \in 1..Len(dedup_run.stats.details) :
                  DetailOf(dedup_run.stats.details[k], Members(dedup_run.input, key))

\* two embeddings of identical content and different ids and timestamps: the
\* dry run reports one group of size 2 that keeps the earlier
C17_Witness ==
    /\ dedup_run.op = "remove_duplicates_dry_run"
    /\ Len(dedup_run.input) = 2
    /\ dedup_run.input[1].content = dedup_run.input[2].content
    /\ dedup_run.input[1].created_at < dedup_run.input[2].created_at
    /\ Len(dedup_run.stats.details) = 1
    /\ dedup_run.stats.details[1].total_duplicates = 2
    /\ dedup_run.stats.details[1].to_keep.id = Str(dedup_run.input[1].id)
    /\ dedup_run.stats.details[1].to_remove = <<Entry(dedup_run.input[2])>>


\* the run made is a run of the scraping remover with confirm that returned
\* its stats
IsConfirmRun ==
    /\ dedup_run.op \in {"remove_duplicates", "remove_duplicates.py"}
    /\ dedup_run.confirm
    /\ dedup_run.stats # << >>

\* the ids a dry run lists under to_remove, group after group
DryRunToRemove(stats) ==
    UNION {{stats.details[k].to_remove[i].id : i \in 1..Len(stats.details[k].to_remove)} :
              k \in 1..Len(stats.details)}

\* the dry run and the run with confirm name the same kept id for every group
SameKept(dry, confirmed) ==
    /\ Len(confirmed.kept_ids) = Len(dry.details)
    /\ \A k \in 1..Len(dry.details) : confirmed.kept_ids[k] = dry.details[k].to_keep.id

\* C18: given the same list of embeddings, the ids the dry run lists under
\* to_remove are the ids the run with confirm reports in removed_ids, and both
\* name the same kept id for every group.
C18_SameRemovals ==
    IsConfirmRun =>
        /\ Range(dedup_run.stats.removed_ids) =
              DryRunToRemove(remove_duplicates_dry_run(dedup_run.input))
        /\ SameKept(remove_duplicates_dry_run(dedup_run.input), dedup_run.stats)

\* C18 amended: both name the same kept id for every group, and removed_ids
\* holds the ids the dry run lists under to_remove but those of the
\* embeddings whose delete() raised; without such an embedding the two sets
\* are equal.
C18_SameRemovals_Amended ==
    IsConfirmRun =>
        /\ SameKept(remove_duplicates_dry_run(dedup_run.input), dedup_run.stats)
        /\ Range(dedup_run.stats.removed_ids) =
              DryRunToRemove(remove_duplicates_dry_run(dedup_run.input))
                 \ {Str(id) : id \in dedup_run.failed}
        /\ {Str(id) : id \in dedup_run.failed} \subseteq
              DryRunToRemove(remove_duplicates_dry_run(dedup_run.input))
        /\ dedup_run.failed = {} =>
              Range(dedup_run.stats.removed_ids) =
                 DryRunToRemove(remove_duplicates_dry_run(dedup_run.input))

\* a run with confirm in which no delete() raised and the
\* embeddings removed are those the dry run lists
C18_Witness ==
    /\ dedup_run.op = "remove_duplicates"
    /\ dedup_run.confirm
    /\ dedup_run.failed = {}
    /\ dedup_run.stats.embeddings_removed >= 1
    /\ \E i, j \in 1..Len(dedup_run.input) :
          /\ Strip(dedup_run.input[i].content) = Strip(dedup_run.input[j].content)
          /\ dedup_run.input[i].created_at < dedup_run.input[j].created_at
    /\ Range(dedup_run.stats.removed_ids) =
          DryRunToRemove(remove_duplicates_dry_run(dedup_run.input))
    /\ embedding_rows = {r \in dedup_run.before :
                            Str(r.id) \notin Range(dedup_run.stats.removed_ids)}


\* C19: a command line of a duplicate remover without the confirm flag
\* deletes no row: after the run the table is the table before it.
C19_NoFlagNoDeletion ==
    (/\ dedup_run.op \in {"remove_duplicates.py", "duplicates_remover.py"}
     /\ ~HasFlag(dedup_run.argv, "--confirm"))
        => embedding_rows = dedup_run.before

\* C20: a dry run deletes and modifies no row: after remove_duplicates_dry_run
\* and after remove_duplicates without confirm the table is the table before
\* the call.
C20_DryRunNoEffect ==
    (\/ dedup_run.op = "remove_duplicates_dry_run"
     \/ dedup_run.op = "remove_duplicates" /\ ~dedup_run.confirm)
        => embedding_rows = dedup_run.before

\* remove_duplicates without confirm reported embeddings to remove and the
\* table holds them still
C20_Witness ==
    /\ dedup_run.op = "remove_duplicates"
    /\ ~dedup_run.confirm
    /\ dedup_run.stats.embeddings_to_remove >= 1
    /\ \A i \in 1..Len(dedup_run.input) : dedup_run.input[i] \in embedding_rows
    /\ embedding_rows = dedup_run.before


(***************************************************************************)
(* The scraping remover with another producer writing to the table: rows   *)
(* of the snapshot are deleted by the other producer between the scan      *)
(* (get_webscraping_embeddings) and the calls of delete().                 *)
(***************************************************************************)
\* the tables of at most MaxSharedRows rows of origin webscraping, written
\* one after the other: created_at (auto_now_add) is the time of the insert,
\* and the rows are numbered in the order of their creation
SharedTables ==
    UNION {{{Row(i, WebRowValue(f[i], i)) : i \in 1..n} :
                f \in [1..n -> Range(Contents)]} : n \in 0..MaxSharedRows}

\* delete() raising for a row that is in the table no more
Raising_vanished(failing, vanished) == failing \cup vanished

\* the embeddings delete() raises for: Model.delete() of a row that another
\* producer deleted runs a DELETE that matches no row and raises nothing
Raising(failing, vanished) == failing

\* remove_duplicates with confirm on a snapshot of which the rows `vanished`
\* are deleted by the other producer before delete() is called on them
RemoveDuplicatesShared ==
    /\ dedup_run = NoRun
    /\ \E input \in get_webscraping_embeddings(embedding_rows) :
          \* the rows marked for removal that the other producer deletes
          \E vanished \in SUBSET DeleteCalls(input) :
              \E failing \in SUBSET (DeleteCalls(input) \ vanished) :
                  LET result == remove_duplicates(input, TRUE, Raising(failing, vanished))
                  IN  /\ dedup_run' = [op |-> "remove_duplicates, shared table", argv |-> << >>,
                                       confirm |-> TRUE, input |-> input, failed |-> failing,
                                       vanished |-> vanished, before |-> embedding_rows,
                                       stats |-> result.stats]
                      /\ embedding_rows' = {r \in embedding_rows :
                                               r.id \notin (vanished \cup result.deleted)}
    /\ UNCHANGED <<crawl_vars, url_call, store_vars>>

InitShared ==
    /\ InitCrawler
    /\ url_call = NoCall
    /\ embedding_rows \in SharedTables
    /\ dedup_run = NoRun
    /\ vector_call = NoVectorCall
    /\ cluster_run = NoClusterRun

NextShared == RemoveDuplicatesShared

SpecShared == InitShared /\ [][NextShared]_vars

\* C21: when rows marked for removal were deleted by another producer between
\* the scan and the delete, the run with confirm is not aborted: it returns
\* its stats with a kept id for every group, reports the rows that vanished
\* as removed, and after it no row marked for removal whose delete() did not
\* raise is in the table.
C21_ToleratesVanishedRows ==
    dedup_run.op = "remove_duplicates, shared table" =>
        /\ dedup_run.stats.duplicate_groups =
              Cardinality(DuplicatedKeys(dedup_run.input))
        /\ SameKept(remove_duplicates_dry_run(dedup_run.input), dedup_run.stats)
        /\ \A id \in dedup_run.vanished :
              Str(id) \in DryRunToRemove(remove_duplicates_dry_run(dedup_run.input))
                 => Str(id) \in Range(dedup_run.stats.removed_ids)
        /\ \A r \in dedup_run.before :
              (/\ Str(r.id) \in DryRunToRemove(remove_duplicates_dry_run(dedup_run.input))
               /\ r.id \notin dedup_run.failed)
                 => r \notin embedding_rows

\* two groups of two; the row to remove of the first group vanished, no
\* delete() raised, and the row to remove of the other group is gone as well
C21_Witness ==
    /\ dedup_run.op = "remove_duplicates, shared table"
    /\ Len(dedup_run.input) = 4
    /\ dedup_run.stats.duplicate_groups = 2
    /\ dedup_run.failed = {}
    /\ Cardinality(dedup_run.vanished) = 1
    /\ \E id \in dedup_run.vanished :
          Str(id) \in DryRunToRemove(remove_duplicates_dry_run(dedup_run.input))
    /\ dedup_run.stats.embeddings_removed = 2
    /\ Cardinality(embedding_rows) = 2


(***************************************************************************)
(* VectorStore of unipost_automation/src/storage/vector_store.  A vector   *)
(* is a list of floats of integral value.  A similarity is kept exactly as *)
(* the record [dot, norms] that stands for dot / sqrt(norms), norms being  *)
(* the product of the squares of the two norms; [dot |-> 0, norms |-> 0]   *)
(* stands for the nan a division 0.0 / 0.0 gives.                          *)
(***************************************************************************)
RECURSIVE np_dot(_, _)
\* np.dot(a, b) of two arrays of one length
np_dot(a, b) ==
    IF a = << >> THEN 0 ELSE Head(a) * Head(b) + np_dot(Tail(a), Tail(b))

\* the square of np.linalg.norm(a)
SquaredNorm(a) == np_dot(a, a)

\* the float 0.0
Zero == [dot |-> 0, norms |-> 1]

\* cosine_similarity without the test of the norms
cosine_similarity_unguarded(vec1, vec2) ==
    IF Len(vec1) # Len(vec2)
    THEN Zero
    ELSE [dot |-> np_dot(vec1, vec2), norms |-> SquaredNorm(vec1) * SquaredNorm(vec2)]

\* VectorStore.cosine_similarity(vec1, vec2): np.dot raises ValueError for
\* arrays of different lengths, which is caught and gives 0.0
cosine_similarity(vec1, vec2) ==
    IF Len(vec1) # Len(vec2)
    THEN Zero
    ELSE IF SquaredNorm(vec1) = 0 \/ SquaredNorm(vec2) = 0
         THEN Zero
         ELSE [dot |-> np_dot(vec1, vec2), norms |-> SquaredNorm(vec1) * SquaredNorm(vec2)]

\* similarity >= p / q, for a threshold p / q above 0.  The comparison is
\* exact; for the vectors the store holds and is searched with, the float64
\* quotient lies on the same side of each threshold of the code.
AtLeast(similarity, p, q) ==
    /\ similarity.dot > 0
    /\ q * q * similarity.dot * similarity.dot >= p * p * similarity.norms

\* similarity < other
Below(similarity, other) ==
    IF similarity.dot >= 0 /\ other.dot >= 0
    THEN similarity.dot * similarity.dot * other.norms < other.dot * other.dot * similarity.norms
    ELSE IF similarity.dot < 0 /\ other.dot < 0
         THEN similarity.dot * similarity.dot * other.norms > other.dot * other.dot * similarity.norms
         ELSE similarity.dot < other.dot

\* the words of str.split(): the longest runs of characters other than
\* whitespace
Words(s) ==
    {SubSeq(s, word[1], word[2]) :
        word \in {r \in (1..Len(s)) \X (1..Len(s)) :
                    /\ r[1] <= r[2]
                    /\ \A i \in r[1]..r[2] : s[i] \notin Whitespace
                    /\ r[1] = 1 \/ s[r[1] - 1] \in Whitespace
                    /\ r[2] = Len(s) \/ s[r[2] + 1] \in Whitespace}}

\* the intersection of text_similarity taken for the union
text_similarity_of_all(text1, text2) ==
    LET t1 == Strip(Lower(text1))
        t2 == Strip(Lower(text2))
    IN  IF t1 = << >> \/ t2 = << >>
        THEN [num |-> 0, den |-> 1]
        ELSE [num |-> Cardinality(Words(t1) \cup Words(t2)),
              den |-> Cardinality(Words(t1) \cup Words(t2))]

\* VectorStore.text_similarity(text1, text2): the quotient num / den
text_similarity(text1, text2) ==
    LET t1 == Strip(Lower(text1))
        t2 == Strip(Lower(text2))
    IN  IF t1 = << >> \/ t2 = << >>
        THEN [num |-> 0, den |-> 1]
        ELSE IF Words(t1) \cup Words(t2) = {}
             THEN [num |-> 0, den |-> 1]
             ELSE [num |-> Cardinality(Words(t1) \cap Words(t2)),
                   den |-> Cardinality(Words(t1) \cup Words(t2))]


\* the embeddings a row of the vector store may be, without its id: rows of
\* origin webscraping, a processing record and a row of another origin
StoredValues ==
    {[origin |-> "webscraping", metadata_type |-> "content", title |-> v[2],
      content |-> <<"a">>, embedding_vector |-> v[1]] :
        v \in {<< <<1, 0>>, <<"a", " ", "b">> >>, << <<1, 0>>, << >> >>,
               << <<2, 1>>, <<"a", " ", "b">> >>, << <<2, 1>>, <<"a", " ", "c">> >>,
               << <<1, 1>>, << >> >>, << <<0, 1>>, << >> >>}}
    \cup
    {[origin |-> "webscraping", metadata_type |-> "processing_record",
      title |-> <<"a", " ", "b">>, content |-> <<"a">>, embedding_vector |-> <<1, 0>>],
     [origin |-> "business_brain", metadata_type |-> "content",
      title |-> <<"a", " ", "b">>, content |-> <<"a">>, embedding_vector |-> <<1, 0>>]}

\* the embedding of id i that holds the value
Stored(i, value) ==
    [id |-> i, origin |-> value.origin, metadata_type |-> value.metadata_type,
     title |-> value.title, content |-> value.content,
     embedding_vector |-> value.embedding_vector]

\* Embedding.objects of at most MaxStored rows as a query iterates over it:
\* Meta.ordering is ['-id']
Stores ==
    UNION {{[k \in 1..n |-> Stored(n + 1 - k, f[k])] : f \in [1..n -> StoredValues]} :
              n \in 0..MaxStored}

\* filter(origin='webscraping').exclude(metadata__type='processing_record')
ContentEmbeddings(store) ==
    SelectSeq(store, LAMBDA e : e.origin = "webscraping" /\ e.metadata_type # "processing_record")

\* the length from which the content of an item is cut
ItemContentLength == 500

\* the entry of similar_items for the embedding
Item(embedding, similarity) ==
    [id |-> Str(embedding.id),
     title |-> embedding.title,
     content |-> IF Len(embedding.content) > ItemContentLength
                 THEN SubSeq(embedding.content, 1, ItemContentLength) \o <<".", ".", ".">>
                 ELSE embedding.content,
     similarity |-> similarity,
     metadata |-> embedding.metadata_type]

\* similar_items.sort(key=similarity, reverse=True): the sort is stable
SortBySimilarity(items) ==
    [k \in 1..Len(items) |->
        items[CHOOSE i \in 1..Len(items) :
                 Cardinality({j \in 1..Len(items) :
                                 \/ Below(items[i].similarity, items[j].similarity)
                                 \/ /\ ~Below(items[j].similarity, items[i].similarity)
                                    /\ j < i}) = k - 1]]

\* the items of the embeddings whose similarity is at least min_similarity
SimilarItems(embeddings, query_vector, min_similarity) ==
    LET all == [k \in 1..Len(embeddings) |->
                   Item(embeddings[k],
                        cosine_similarity(query_vector, embeddings[k].embedding_vector))]
    IN  SelectSeq(all, LAMBDA item :
                           AtLeast(item.similarity, min_similarity[1], min_similarity[2]))

\* VectorStore.find_similar_content_sync(query_vector, limit, min_similarity),
\* awaited
find_similar_content_sync(store, query_vector, limit, min_similarity) ==
    LET similar_items ==
            SortBySimilarity(SimilarItems(ContentEmbeddings(store), query_vector, min_similarity))
    IN  SubSeq(similar_items, 1, IF limit < Len(similar_items) THEN limit ELSE Len(similar_items))

\* self.similarity_threshold, 0.8
similarity_threshold == <<4, 5>>

\* the threshold 0.9 above which the title is not looked at
HighThreshold == <<9, 10>>

\* the threshold 0.6 of the title's similarity
TitleThreshold == <<3, 5>>

\* what the call of a function wrapped by sync_to_async returns when it is
\* not awaited: the coroutine object of SyncToAsync.__call__
Coroutine(function) == [coroutine |-> function]

\* the item passes the tests of the loop of check_duplicate_content_sync
IsDuplicateItem(item, title) ==
    /\ AtLeast(item.similarity, similarity_threshold[1], similarity_threshold[2])
    /\ \/ /\ title # << >>
          /\ item.title # << >>
          /\ text_similarity(title, item.title).num * TitleThreshold[2] >
                TitleThreshold[1] * text_similarity(title, item.title).den
       \/ AtLeast(item.similarity, HighThreshold[1], HighThreshold[2])

\* the loop of check_duplicate_content_sync over a list of items: the first
\* item that passes
FirstDuplicate(similar_items, title) ==
    IF \E k \in 1..Len(similar_items) : IsDuplicateItem(similar_items[k], title)
    THEN similar_items[CHOOSE k \in 1..Len(similar_items) :
                          /\ IsDuplicateItem(similar_items[k], title)
                          /\ \A j \in 1..(k - 1) : ~IsDuplicateItem(similar_items[j], title)]
    ELSE None

\* `for item in similar_items`: a coroutine object is not iterable, the
\* TypeError is caught by `except Exception` and None is returned
DuplicateIn(similar_items, title) ==
    IF similar_items = Coroutine("find_similar_content_sync")
    THEN None
    ELSE FirstDuplicate(similar_items, title)

\* VectorStore.check_duplicate_content_sync(content_vector, title), awaited:
\* it calls self.find_similar_content_sync(...), itself wrapped by
\* sync_to_async, without await
check_duplicate_content_sync(store, content_vector, title) ==
    DuplicateIn(Coroutine("find_similar_content_sync"), title)


\* the vectors cosine_similarity is called with
TestVectors ==
    {<< >>, <<0, 0>>, <<1, 0>>, <<0, 1>>, <<-1, 0>>, <<2, 0>>, <<1, 1>>, <<2, 1>>, <<-2, -1>>,
     <<1, 2>>, <<1, 0, 0>>}

\* the texts text_similarity is called with
TestTexts ==
    {<< >>, <<" ">>, <<"a">>, <<"A">>, <<"b">>, <<"a", " ", "b">>, <<"b", " ", "a">>,
     <<" ", "a", " ", " ", "b", "\n">>, <<"a", " ", "a">>, <<"a", " ", "c">>,
     <<"A", " ", "b", " ", "c">>}

\* the vectors the store is searched with
QueryVectors == {<<1, 0>>, <<1, 1>>}

\* the titles of the candidates
QueryTitles == {<< >>, <<"a", " ", "b">>}

\* the values of limit
Limits == {1, 10}

\* the values of min_similarity: 0.7, the default, and 0.8
MinSimilarities == {<<7, 10>>, <<4, 5>>}

\* what a call of a VectorStore function leaves of the other variables
StoreFrame == UNCHANGED <<crawl_vars, url_call, embedding_rows, dedup_run, cluster_run>>

\* a call of cosine_similarity
CallCosineSimilarity ==
    /\ vector_call = NoVectorCall
    /\ \E vec1 \in TestVectors, vec2 \in TestVectors :
          vector_call' = [op |-> "cosine_similarity", vec1 |-> vec1, vec2 |-> vec2,
                          result |-> cosine_similarity(vec1, vec2)]
    /\ StoreFrame

\* a call of text_similarity
CallTextSimilarity ==
    /\ vector_call = NoVectorCall
    /\ \E text1 \in TestTexts, text2 \in TestTexts :
          vector_call' = [op |-> "text_similarity", text1 |-> text1, text2 |-> text2,
                          result |-> text_similarity(text1, text2)]
    /\ StoreFrame

\* await find_similar_content_sync(query_vector, limit, min_similarity)
CallFindSimilar ==
    /\ vector_call = NoVectorCall
    /\ \E store \in Stores, query_vector \in QueryVectors, limit \in Limits,
          min_similarity \in MinSimilarities :
          vector_call' = [op |-> "find_similar_content_sync", store |-> store,
                          query_vector |-> query_vector, limit |-> limit,
                          min_similarity |-> min_similarity,
                          result |-> find_similar_content_sync(store, query_vector, limit,
                                                               min_similarity)]
    /\ StoreFrame

\* await check_duplicate_content_sync(content_vector, title)
CallCheckDuplicate ==
    /\ vector_call = NoVectorCall
    /\ \E store \in Stores, content_vector \in QueryVectors, title \in QueryTitles :
          vector_call' = [op |-> "check_duplicate_content_sync", store |-> store,
                          content_vector |-> content_vector, title |-> title,
                          result |-> check_duplicate_content_sync(store, content_vector, title)]
    /\ StoreFrame

NextStore ==
    \/ CallCosineSimilarity
    \/ CallTextSimilarity
    \/ CallFindSimilar
    \/ CallCheckDuplicate

\* The functions of the vector store write nothing, so a behaviour makes one
\* call.
SpecStore == Init /\ [][NextStore]_vars

(***************************************************************************)
(* Properties of the vector store.                                         *)
(***************************************************************************)
\* the candidate is a near duplicate of the stored embedding: similarity at
\* least 0.9, or at least 0.8 with a title similarity above 0.6
NearDuplicate(embedding, content_vector, title) ==
    LET similarity == cosine_similarity(content_vector, embedding.embedding_vector)
    IN  \/ AtLeast(similarity, 9, 10)
        \/ /\ AtLeast(similarity, 8, 10)
           /\ title # << >>
           /\ embedding.title # << >>
           /\ 10 * text_similarity(title, embedding.title).num >
                 6 * text_similarity(title, embedding.title).den

\* C22: the near-duplicate check reports a duplicate exactly when some stored
\* embedding is a near duplicate of the candidate.
C22_ReportsNearDuplicate ==
    vector_call.op = "check_duplicate_content_sync" =>
        (vector_call.result # None
            <=> \E k \in 1..Len(vector_call.store) :
                   NearDuplicate(vector_call.store[k], vector_call.content_vector,
                                 vector_call.title))


(***************************************************************************)
(* VectorStore.get_content_clusters_sync, one iteration of its outer loop  *)
(* at a time.  cluster_run holds the locals embeddings, clusters and       *)
(* processed_ids, the position i of the outer loop (from 1) and, as        *)
(* history, the cluster built in each iteration whether kept or discarded. *)
(***************************************************************************)
\* the threshold of a cluster taken for 0.5
ClusterThreshold_half == <<1, 2>>

\* the threshold 0.75 of a cluster
ClusterThreshold == <<3, 4>>

\* an id taken for not processed whatever processed_ids holds
IsProcessed_never(id, processed_ids) == FALSE

\* str(embedding.id) in processed_ids
IsProcessed(id, processed_ids) == Str(id) \in processed_ids

\* the length at which the content of the representative is cut
RepresentativeLength == 200

\* the values of min_cluster_size
MinClusterSizes == {1, 2, 3}

\* the positions after i of the embeddings the inner loop appends to the
\* cluster of embeddings[i]: those not processed whose similarity to
\* embeddings[i] is at least the threshold.  The ids of a list are distinct,
\* so what the loop adds to processed_ids on its way rules out no later one.
Absorbed(embeddings, i, processed_ids) ==
    Ascending({j \in (i + 1)..Len(embeddings) :
                  /\ ~IsProcessed(embeddings[j].id, processed_ids)
                  /\ AtLeast(cosine_similarity(embeddings[i].embedding_vector,
                                               embeddings[j].embedding_vector),
                             ClusterThreshold[1], ClusterThreshold[2])})

\* the cluster the iteration for embeddings[i] builds
BuildCluster(embeddings, i, clusters, processed_ids) ==
    LET absorbed == Absorbed(embeddings, i, processed_ids)
    IN  [id |-> Len(clusters),
         representative |->
             [id |-> Str(embeddings[i].id),
              title |-> embeddings[i].title,
              content |-> SubSeq(embeddings[i].content, 1,
                                 IF Len(embeddings[i].content) < RepresentativeLength
                                 THEN Len(embeddings[i].content)
                                 ELSE RepresentativeLength) \o <<".", ".", ".">>],
         members |-> <<Str(embeddings[i].id)>> \o
                     [k \in 1..Len(absorbed) |-> Str(embeddings[absorbed[k]].id)],
         similarity_scores |->
             [k \in 1..Len(absorbed) |->
                 cosine_similarity(embeddings[i].embedding_vector,
                                   embeddings[absorbed[k]].embedding_vector)]]

\* await get_content_clusters_sync(min_cluster_size): the query is made
GetContentClusters ==
    /\ cluster_run = NoClusterRun
    /\ \E store \in Stores, min_cluster_size \in MinClusterSizes :
          cluster_run' = [at |-> "loop", min_cluster_size |-> min_cluster_size,
                          embeddings |-> ContentEmbeddings(store), i |-> 1,
                          clusters |-> << >>, processed_ids |-> {}, built |-> << >>]
    /\ UNCHANGED <<crawl_vars, url_call, embedding_rows, dedup_run, vector_call>>

\* an iteration of the outer loop for an embedding that is processed: continue
IterateProcessed ==
    /\ cluster_run.at = "loop"
    /\ cluster_run.i <= Len(cluster_run.embeddings)
    /\ IsProcessed(cluster_run.embeddings[cluster_run.i].id, cluster_run.processed_ids)
    /\ cluster_run' = [cluster_run EXCEPT !.i = @ + 1]
    /\ UNCHANGED <<crawl_vars, url_call, embedding_rows, dedup_run, vector_call>>

\* an iteration of the outer loop for an embedding that is not processed: its
\* cluster is built and, with min_cluster_size members, appended to clusters
IterateCluster ==
    /\ cluster_run.at = "loop"
    /\ cluster_run.i <= Len(cluster_run.embeddings)
    /\ ~IsProcessed(cluster_run.embeddings[cluster_run.i].id, cluster_run.processed_ids)
    /\ LET cluster == BuildCluster(cluster_run.embeddings, cluster_run.i,
                                   cluster_run.clusters, cluster_run.processed_ids)
       IN  cluster_run' =
               [cluster_run EXCEPT
                   !.i = @ + 1,
                   !.processed_ids = @ \cup Range(cluster.members),
                   !.clusters = IF Len(cluster.members) >= cluster_run.min_cluster_size
                                THEN Append(@, cluster) ELSE @,
                   !.built = Append(@, [i |-> cluster_run.i,
                                        processed_ids |-> cluster_run.processed_ids,
                                        cluster |-> cluster])]
    /\ UNCHANGED <<crawl_vars, url_call, embedding_rows, dedup_run, vector_call>>

\* the outer loop is over: clusters is returned
ReturnClusters ==
    /\ cluster_run.at = "loop"
    /\ cluster_run.i > Len(cluster_run.embeddings)
    /\ cluster_run' = [cluster_run EXCEPT !.at = "returned"]
    /\ UNCHANGED <<crawl_vars, url_call, embedding_rows, dedup_run, vector_call>>

NextClusters ==
    \/ GetContentClusters
    \/ IterateProcessed
    \/ IterateCluster
    \/ ReturnClusters

SpecClusters == Init /\ [][NextClusters]_vars


\* the similarity of the embeddings at two positions of the list
SimilarityAt(embeddings, i, j) ==
    cosine_similarity(embeddings[i].embedding_vector, embeddings[j].embedding_vector)

\* the cluster was built for the embedding at position `at` as the
\* representative, which was not processed, and its other members are the
\* embeddings after it that were not processed and whose similarity to the
\* representative is at least 0.75, in the order of the list
BuiltFrom(embeddings, at, processed_ids, cluster) ==
    /\ Str(embeddings[at].id) \notin processed_ids
    /\ cluster.representative.id = Str(embeddings[at].id)
    /\ cluster.members[1] = Str(embeddings[at].id)
    /\ \A j \in 1..Len(embeddings) :
          Str(embeddings[j].id) \in Range(Tail(cluster.members))
             <=> /\ j > at
                 /\ Str(embeddings[j].id) \notin processed_ids
                 /\ AtLeast(SimilarityAt(embeddings, at, j), 75, 100)
    /\ \A m, n \in 2..Len(cluster.members) :
          m < n => \E j, k \in 1..Len(embeddings) :
                      /\ j < k
                      /\ cluster.members[m] = Str(embeddings[j].id)
                      /\ cluster.members[n] = Str(embeddings[k].id)

\* C23: the clusters are built in the order of the list: each embedding not
\* yet in a cluster starts one as its representative and absorbs every later
\* embedding not yet in a cluster whose similarity to the representative is at
\* least 0.75, and no other; the similarity of two members other than the
\* representative plays no part.
C23_GreedyByRepresentative ==
    cluster_run.at \in {"loop", "returned"} =>
        /\ \A b \in 1..Len(cluster_run.built) :
              BuiltFrom(cluster_run.embeddings, cluster_run.built[b].i,
                        cluster_run.built[b].processed_ids, cluster_run.built[b].cluster)
        /\ \A b, c \in 1..Len(cluster_run.built) :
              b < c => cluster_run.built[b].i < cluster_run.built[c].i
        /\ \A at \in 1..(cluster_run.i - 1) :
              \E b \in 1..Len(cluster_run.built) :
                  /\ cluster_run.built[b].i <= at
                  /\ Str(cluster_run.embeddings[at].id) \in
                        Range(cluster_run.built[b].cluster.members)

\* three embeddings A, B, C with A-B at least 0.9 and A-C and B-C below 0.75:
\* A and B are one cluster and C is the only member of its own, which a
\* min_cluster_size of 2 discards
C23_Witness ==
    /\ cluster_run.at = "returned"
    /\ cluster_run.min_cluster_size = 2
    /\ Len(cluster_run.embeddings) = 3
    /\ AtLeast(SimilarityAt(cluster_run.embeddings, 1, 2), 9, 10)
    /\ ~AtLeast(SimilarityAt(cluster_run.embeddings, 1, 3), 75, 100)
    /\ ~AtLeast(SimilarityAt(cluster_run.embeddings, 2, 3), 75, 100)
    /\ Len(cluster_run.clusters) = 1
    /\ cluster_run.clusters[1].members =
          <<Str(cluster_run.embeddings[1].id), Str(cluster_run.embeddings[2].id)>>
    /\ Len(cluster_run.built) = 2
    /\ cluster_run.built[2].cluster.members = <<Str(cluster_run.embeddings[3].id)>>


(***************************************************************************)
(* Further properties of the crawl.                                        *)
(***************************************************************************)
\* the position in the document of the first anchor whose link is the URL
FirstAnchor(hrefs, base, url) ==
    CHOOSE k \in 1..Len(hrefs) :
        /\ normalize_url(hrefs[k], base) = url
        /\ \A j \in 1..(k - 1) : normalize_url(hrefs[j], base) # url

\* the entries a step appended to the queue stand in the order of the anchors
\* of the page scraped
AppendedInDocumentOrder ==
    \A t \in Tasks : (pc[t] = "fetch" /\ pc'[t] = "sleep") =>
        \A w \in PagesAt(RequestUrl(current[t][1])) :
            \A i, j \in (Len(url_queue) + 1)..Len(url_queue') :
                i < j => FirstAnchor(w.hrefs, RequestUrl(current[t][1]), url_queue'[i][1])
                            < FirstAnchor(w.hrefs, RequestUrl(current[t][1]), url_queue'[j][1])

\* C24: the links found on one page are appended to the queue in the order of
\* extraction, which is the order of the anchors in the document.
C24_DocumentOrder == [][AppendedInDocumentOrder]_vars


\* the vector of the opposite components
Opposite(vec) == [k \in 1..Len(vec) |-> 0 - vec[k]]

\* all the components of the vector are 0
IsZeroVector(vec) == \A k \in 1..Len(vec) : vec[k] = 0

\* the similarity is the float 0.0, 1.0, -1.0
IsZero(similarity) == similarity.dot = 0 /\ similarity.norms # 0
IsOne(similarity) == similarity.dot > 0 /\ similarity.dot * similarity.dot = similarity.norms
IsMinusOne(similarity) == similarity.dot < 0 /\ similarity.dot * similarity.dot = similarity.norms

\* C25: cosine_similarity returns a float for every two lists: 0.0 when one of
\* them is the zero vector, 1.0 for two identical vectors other than zero,
\* -1.0 for opposite vectors, 0.0 for orthogonal vectors, a value between -1
\* and 1 in every case, and the same value with its arguments exchanged.
C25_CosineValues ==
    vector_call.op = "cosine_similarity" =>
        /\ vector_call.result.norms > 0
        /\ vector_call.result.dot * vector_call.result.dot <= vector_call.result.norms
        /\ (IsZeroVector(vector_call.vec1) \/ IsZeroVector(vector_call.vec2))
              => IsZero(vector_call.result)
        /\ (vector_call.vec1 = vector_call.vec2 /\ ~IsZeroVector(vector_call.vec1))
              => IsOne(vector_call.result)
        /\ (vector_call.vec2 = Opposite(vector_call.vec1) /\ ~IsZeroVector(vector_call.vec1))
              => IsMinusOne(vector_call.result)
        /\ (/\ Len(vector_call.vec1) = Len(vector_call.vec2)
            /\ np_dot(vector_call.vec1, vector_call.vec2) = 0)
              => IsZero(vector_call.result)
        /\ vector_call.result = cosine_similarity(vector_call.vec2, vector_call.vec1)

\* the call for [2, 1] and [-2, -1] returned -1.0
C25_Witness ==
    /\ vector_call.op = "cosine_similarity"
    /\ vector_call.vec1 = <<2, 1>>
    /\ vector_call.vec2 = <<-2, -1>>
    /\ IsMinusOne(vector_call.result)

\* the words of a text in lower case
LowerWords(text) == Words(Lower(text))

\* C26: text_similarity is the quotient of the number of the words the two
\* texts share by the number of the words of both, the words being those of
\* the texts in lower case between whitespace: 0.0 when a text holds no word,
\* 1.0 for two texts of the same words, and between 0 and 1 when the texts
\* share some of their words and not all.
C26_Jaccard ==
    vector_call.op = "text_similarity" =>
        /\ (LowerWords(vector_call.text1) = {} \/ LowerWords(vector_call.text2) = {})
              => vector_call.result.num = 0
        /\ (LowerWords(vector_call.text1) # {} /\ LowerWords(vector_call.text2) # {}) =>
              /\ vector_call.result.num =
                    Cardinality(LowerWords(vector_call.text1) \cap LowerWords(vector_call.text2))
              /\ vector_call.result.den =
                    Cardinality(LowerWords(vector_call.text1) \cup LowerWords(vector_call.text2))
        /\ (vector_call.text1 = vector_call.text2 /\ LowerWords(vector_call.text1) # {})
              => vector_call.result.num = vector_call.result.den
        /\ (/\ LowerWords(vector_call.text1) \cap LowerWords(vector_call.text2) # {}
            /\ LowerWords(vector_call.text1) # LowerWords(vector_call.text2))
              => /\ 0 < vector_call.result.num
                 /\ vector_call.result.num < vector_call.result.den
        /\ vector_call.result.den > 0

\* the call for 'a b' and 'A b c' returned 2/3
C26_Witness ==
    /\ vector_call.op = "text_similarity"
    /\ vector_call.text1 = <<"a", " ", "b">>
    /\ vector_call.text2 = <<"A", " ", "b", " ", "c">>
    /\ vector_call.result = [num |-> 2, den |-> 3]


(***************************************************************************)
(* The budget of pages is spent by successful requests only.               *)
(***************************************************************************)
\* the number of requests of a log with the given response
Responses(log, response) == Cardinality({i \in 1..Len(log) : log[i].response = response})

\* a step in which a request of call t fails leaves the counter of pages as
\* it was
FailureKeepsCounter ==
    \A t \in Tasks :
        Responses(fetched'[t], "failed") > Responses(fetched[t], "failed") =>
            pages_scraped'[t] = pages_scraped[t]

\* the counter of pages is the number of requests that succeeded; the
\* requests issued are at most max_pages more than those that failed; and a
\* call that has returned left the queue empty or scraped max_pages pages
BudgetBySuccess ==
    \A t \in Tasks : Crawled(t) =>
        /\ pages_scraped[t] = Responses(fetched[t], "ok")
        /\ Len(fetched[t]) <= site_config[t].max_pages + Responses(fetched[t], "failed")
        /\ pc[t] = "done" =>
              url_queue = << >> \/ Responses(fetched[t], "ok") = site_config[t].max_pages

\* C27: only requests that succeed spend the budget max_pages: a failed
\* request leaves pages_scraped unchanged, a call goes on until max_pages
\* requests have succeeded or the queue is empty, and the number of its
\* requests is at most max_pages plus the number of its failed requests
C27_SuccessesSpendBudget == []BudgetBySuccess /\ [][FailureKeepsCounter]_vars

\* C27 witness: a call returned max_pages >= 2 pages after more than
\* max_pages requests, of which one failed
C27_Witness ==
    \E t \in Tasks :
        /\ pc[t] = "done"
        /\ site_config[t].max_pages >= 2
        /\ Len(returned[t]) = site_config[t].max_pages
        /\ Len(fetched[t]) > site_config[t].max_pages
        /\ Responses(fetched[t], "failed") >= 1

(***************************************************************************)
(* A crawl that empties its queue has requested every URL within           *)
(* max_depth links of the base URL, each at its distance.                  *)
(***************************************************************************)
\* the links call t found on the page it scraped at url and would follow:
\* those should_crawl_url accepts
FollowedLinks(t, url) ==
    {link \in UNION {Range(scraped_pages[t][i].links) :
                        i \in {j \in 1..Len(scraped_pages[t]) : scraped_pages[t][j].url = url}} :
        should_crawl_url(link, site_config[t], base_url[t])}

\* the pairs <<url, link>> of a page call t scraped and a link it would
\* follow from it
FollowedPairs(t) ==
    UNION {{<<scraped_pages[t][i].url, link>> : link \in FollowedLinks(t, scraped_pages[t][i].url)} :
              i \in 1..Len(scraped_pages[t])}

\* the URLs a chain of at most k links of `pairs` leads to from base
RECURSIVE Within(_, _, _)
Within(pairs, base, k) ==
    IF k = 0 THEN {base}
    ELSE LET near == Within(pairs, base, k - 1)
         IN  near \cup {pair[2] : pair \in {q \in pairs : q[1] \in near}}

\* the length of the shortest chain that leads to url, of at most max_depth
\* links
Distance(pairs, base, max_depth, url) ==
    CHOOSE k \in 0..max_depth :
        /\ url \in Within(pairs, base, k)
        /\ \A j \in 0..(k - 1) : url \notin Within(pairs, base, j)

\* call t has requested every URL within max_depth links of its base URL,
\* each at the depth that is its distance
CrawledAllWithin(t) ==
    LET pairs == FollowedPairs(t)
        max_depth == site_config[t].max_depth
        reachable == Within(pairs, base_url[t], max_depth)
    IN  /\ reachable \subseteq FetchedUrls(t)
        /\ \A i \in 1..Len(fetched[t]) :
              /\ fetched[t][i].url \in reachable
              /\ fetched[t][i].depth = Distance(pairs, base_url[t], max_depth, fetched[t][i].url)

\* call t has returned because its queue was empty, with fewer than max_pages
\* pages scraped
EndedByEmptyQueue(t) ==
    /\ pc[t] = "done"
    /\ base_url[t] # << >>
    /\ url_queue = << >>
    /\ pages_scraped[t] < site_config[t].max_pages

\* C28: a crawl that ends because its queue is empty, and not because
\* max_pages pages were scraped, has requested every URL that a chain of at
\* most max_depth links leads to from the base URL, each link found on a
\* page scraped with success and accepted by should_crawl_url, and has
\* requested each at a depth equal to the length of the shortest such chain
C28_BreadthFirstComplete ==
    \A t \in Tasks : EndedByEmptyQueue(t) => CrawledAllWithin(t)

\* C28 for the crawls with recursive crawling enabled
C28_BreadthFirstComplete_Amended ==
    \A t \in Tasks :
        (EndedByEmptyQueue(t) /\ site_config[t].enable_recursive_crawling) =>
            CrawledAllWithin(t)

\* C28 witness: a recursive crawl ended with its queue empty after a request
\* at depth 2 and a request at depth 1 for a URL that a page of depth 1
\* links to as well
C28_Witness ==
    \E t \in Tasks :
        /\ EndedByEmptyQueue(t)
        /\ site_config[t].enable_recursive_crawling
        /\ \E i, j, k \in 1..Len(fetched[t]) :
              /\ fetched[t][i].depth = 2
              /\ fetched[t][j].depth = 1
              /\ fetched[t][k].depth = 1
              /\ fetched[t][j].url \in FollowedLinks(t, fetched[t][k].url)

(***************************************************************************)
(* What a run with confirm leaves when every delete succeeds.              *)
(***************************************************************************)
\* the embeddings of the input of the run that are still rows of the table
Survivors ==
    {e \in Range(dedup_run.input) : \E r \in embedding_rows : r.id = e.id}

\* a second pass: remove_duplicates with confirm on the embeddings the
\* table holds now finds no duplicate group and deletes nothing
SecondPassIdle ==
    \A embeddings \in get_webscraping_embeddings(embedding_rows) :
        /\ find_duplicates(embeddings) = << >>
        /\ remove_duplicates(embeddings, TRUE, {}).deleted = {}
        /\ remove_duplicates(embeddings, TRUE, {}).stats.removed_ids = << >>

\* C29: after a run with confirm in which every delete succeeds, no id is
\* both in kept_ids and in removed_ids and the embedding kept of every group
\* is still in the table; every content, after trimming, of the input is
\* held by exactly one embedding of the input that is still in the table;
\* and a second pass over the table finds no duplicate group and removes
\* nothing
C29_OneSurvivorPerContent ==
    (IsConfirmRun /\ dedup_run.failed = {}) =>
        /\ Range(dedup_run.stats.kept_ids) \cap Range(dedup_run.stats.removed_ids) = {}
        /\ \A k \in 1..Len(dedup_run.stats.kept_ids) :
              \E e \in Survivors : Str(e.id) = dedup_run.stats.kept_ids[k]
        /\ \A i \in 1..Len(dedup_run.input) :
              Cardinality({e \in Survivors :
                              Strip(e.content) = Strip(dedup_run.input[i].content)}) = 1
        /\ SecondPassIdle

\* C29 witness: a run with confirm in which every delete succeeded removed
\* embeddings of an input that held two different contents after trimming
C29_Witness ==
    /\ IsConfirmRun
    /\ dedup_run.failed = {}
    /\ dedup_run.stats.embeddings_removed >= 1
    /\ \E i, j \in 1..Len(dedup_run.input) :
          Strip(dedup_run.input[i].content) # Strip(dedup_run.input[j].content)

(***************************************************************************)
(* Every embedding is in at most one cluster.                              *)
(***************************************************************************)
\* the ids of the members of the clusters of a list
MemberIds(clusters) == UNION {Range(clusters[c].members) : c \in 1..Len(clusters)}

\* the clusters the iterations built, kept or discarded, in their order
BuiltClusters == [b \in 1..Len(cluster_run.built) |-> cluster_run.built[b].cluster]

\* no id is twice in a cluster, and no id is in two clusters of the list
PairwiseDisjoint(clusters) ==
    /\ \A c \in 1..Len(clusters) :
          \A m, n \in 1..Len(clusters[c].members) :
              clusters[c].members[m] = clusters[c].members[n] => m = n
    /\ \A c, d \in 1..Len(clusters) :
          c # d => Range(clusters[c].members) \cap Range(clusters[d].members) = {}

\* the clusters built that clusters does not hold: those of fewer than
\* min_cluster_size members
Discarded ==
    {b \in 1..Len(cluster_run.built) :
        Len(cluster_run.built[b].cluster.members) < cluster_run.min_cluster_size}

\* C30: every embedding is marked as processed at most once, by the one
\* cluster it is a member of: the clusters built share no member, the
\* clusters returned share no member and have at least min_cluster_size
\* members each, and a member of a cluster discarded for its size stays in
\* processed_ids and is neither representative nor member of a cluster
\* returned
C30_DisjointClusters ==
    cluster_run.at \in {"loop", "returned"} =>
        /\ \A b \in 1..Len(cluster_run.built) :
              Range(cluster_run.built[b].cluster.members) \cap cluster_run.built[b].processed_ids = {}
        /\ PairwiseDisjoint(BuiltClusters)
        /\ cluster_run.processed_ids = MemberIds(BuiltClusters)
        /\ PairwiseDisjoint(cluster_run.clusters)
        /\ \A c \in 1..Len(cluster_run.clusters) :
              /\ Len(cluster_run.clusters[c].members) >= cluster_run.min_cluster_size
              /\ \E b \in 1..Len(cluster_run.built) \ Discarded :
                    cluster_run.built[b].cluster = cluster_run.clusters[c]
        /\ \A b \in Discarded :
              \A id \in Range(cluster_run.built[b].cluster.members) :
                  /\ id \in cluster_run.processed_ids
                  /\ id \notin MemberIds(cluster_run.clusters)
                  /\ \A c \in 1..Len(cluster_run.clusters) :
                        cluster_run.clusters[c].representative.id # id

\* C30 witness: with min_cluster_size 3 the first of three embeddings absorbed
\* the second, the cluster of the two was discarded, the second started no
\* cluster of its own and the third is alone in the last cluster built
C30_Witness ==
    /\ cluster_run.at = "returned"
    /\ cluster_run.min_cluster_size = 3
    /\ Len(cluster_run.embeddings) = 3
    /\ Len(cluster_run.built) = 2
    /\ cluster_run.built[1].cluster.members =
          <<Str(cluster_run.embeddings[1].id), Str(cluster_run.embeddings[2].id)>>
    /\ cluster_run.built[2].cluster.members = <<Str(cluster_run.embeddings[3].id)>>
    /\ AtLeast(SimilarityAt(cluster_run.embeddings, 2, 3), 75, 100)
    /\ cluster_run.clusters = << >>

=============================================================================
